---------------------------- MODULE Spec2Model ----------------------------
(***************************************************************************)
(* A model of the coverage-guided transaction-pool fuzzer                  *)
(* (eth_txpool_fuzzer_core): the seed database, and the engine's outer     *)
(* loop with the state-recreation executor, driven against an abstract     *)
(* node driver whose every call may succeed, fail or raise.                *)
(*                                                                         *)
(* Specifications:                                                         *)
(*   SpecDB    any sequence of initialize_with_empty_input / add_seed /    *)
(*             get_next_seed calls on a SeedDatabase                       *)
(*   Spec      one call of FuzzEngine.run_fuzzing                          *)
(*   FairSpec  Spec, the call taking its next step whenever it has one     *)
(*   SpecExec  one call of FuzzEngine._execute_input_sequence              *)
(*   SpecAbs   get_symbolic_pool_state and get_txpool_energy called on a    *)
(*             raw pool                                                     *)
(*   SpecSym   _parse_input_to_symbol called on an input                    *)
(*   SpecMut   one call of mutate of the default, the blob or the composite *)
(*             strategy                                                     *)
(*   SpecDefault  Spec with the DefaultTxPoolMutation as the strategy       *)
(*   FairSpecDB   SpecDB, get_next_seed being called again and again        *)
(***************************************************************************)
EXTENDS Integers, Sequences, FiniteSets, TLC

(***************************************************************************)
(* Bounds of the model.                                                    *)
(***************************************************************************)
\* SpecDB: number of seeds stored by add_seed, of get_next_seed calls, and the
\* largest energy of a seed.
MaxAdmits == 3
MaxPops == 3
MaxEnergy == 1
\* Spec: the engine's max_iterations, its txpool_size (and
\* initial_normal_tx_count), the number of accounts the AccountManager loaded.
MaxIterations == 2
TxPoolSize == 2
NumAccounts == 3

(***************************************************************************)
(* Constants of config.py and fuzz_engine.py.                              *)
(***************************************************************************)
STATE_NORMAL_TX_PRICE_INDICATOR == 3
STATE_PARENT_REPLACEMENT_PRICE_THRESHOLD == 12000
STATE_CHILD_VALUE_THRESHOLD == 10000
DEFAULT_INITIAL_NONCE == 0
DEFAULT_FUTURE_SLOTS == 1
\* The nonce of a 'future' transaction.
FUTURE_NONCE == 10000

(***************************************************************************)
(* Values.                                                                 *)
(***************************************************************************)
\* Python's None, where a string is expected (Seed.symbolic_state_str).
\* A symbolic string is the sequence of its symbols.
NoneStr == <<"<None>">>
\* A raw pool is [none, pending, queued]: pending and queued are the lists,
\* in dict order, of [sender, txs], txs the list of a sender's records in
\* dict order. This one is Python's None (Seed.txpool_state of the initial
\* seed).
NonePool == [none |-> TRUE, pending |-> << >>, queued |-> << >>]
\* The fingerprint of the initial seed.
INITIAL_STATE == <<"<INITIAL_STATE>">>
\* FuzzInput(tx_sequence_to_execute=[]): no intents, no indices to re-send.
EmptyInput == [tx_sequence_to_execute |-> << >>,
               base_input_indices_to_resend |-> << >>]

\* The fingerprints SpecDB admits seeds with. Every Seed the program builds
\* has one: a string of get_symbolic_pool_state, or INITIAL_STATE.
DbFingerprints == {<<"E", "E">>, <<"N", "N">>, <<"E", "N">>}

(***************************************************************************)
(* Pool records and their abstraction (state.py).                          *)
(***************************************************************************)
\* A field of a pool record holds the number its hex string denotes, or
\* Absent (the key is missing) or Malformed (int(..., 16) raises ValueError).
Absent == -2
Malformed == -1

\* A well-formed pool record.
PoolTx(nonce, type, price, value) ==
    [nonce |-> nonce, type |-> type, gasPrice |-> price, maxFeePerGas |-> price,
     value |-> value, blobs |-> Absent, maxFeePerBlobGas |-> Absent]

\* int(d.get(key, '0'), 16) on a field that is not malformed.
HexOrZero(v) == IF v = Absent THEN 0 ELSE v

RECURSIVE SumUpTo(_, _)
SumUpTo(s, n) == IF n = 0 THEN 0 ELSE s[n] + SumUpTo(s, n - 1)

\* sum(s)
SumSeq(s) == SumUpTo(s, Len(s))

\* [sym] * n
Repeat(sym, n) == [k \in 1..n |-> sym]

RECURSIVE ConcatUpTo(_, _)
ConcatUpTo(ss, n) == IF n = 0 THEN << >> ELSE ConcatUpTo(ss, n - 1) \o ss[n]

\* The lists of ss, one after the other.
Concat(ss) == ConcatUpTo(ss, Len(ss))

\* The result of a stable sort of s, lt[j][k] telling whether s[j] is less
\* than s[k] in the strict weak order sorted by: the element at position k
\* goes behind the elements that are less than it and the elements before it
\* that it is not less than.
StableSort(s, lt) ==
    LET rank(k) == Cardinality({j \in 1..Len(s) :
                       \/ lt[j][k]
                       \/ j < k /\ ~lt[k][j]}) + 1
    IN  [r \in 1..Len(s) |-> s[CHOOSE k \in 1..Len(s) : rank(k) = r]]

\* symbolic_state.count(sym)
Count(str, sym) == Cardinality({k \in 1..Len(str) : str[k] = sym})

\* sorted(txs_by_nonce_str.keys(), key=int): a sender's records by nonce.
SortByNonce(txs) ==
    StableSort(txs, [j \in 1..Len(txs) |-> [k \in 1..Len(txs) |-> txs[j].nonce < txs[k].nonce]])

\* The senders of a dict that have at least one record.
NonEmptySenders(entries) == SelectSeq(entries, LAMBDA e : e.txs # << >>)

\* first_tx_details
FirstTx(e) == Head(SortByNonce(e.txs))

\* The type of a record whose type field is not malformed.
TxType(tx) == HexOrZero(tx.type)

\* The try block on a record's type, gasPrice and maxFeePerGas raises.
PriceMalformed(tx) ==
    \/ tx.type = Malformed
    \/ tx.gasPrice = Malformed
    \/ TxType(tx) \in {2, 3} /\ tx.maxFeePerGas = Malformed

\* first_tx_gas_price / tx_gas_price of a record that is not malformed.
TxPrice(tx) ==
    IF TxType(tx) \in {2, 3} THEN HexOrZero(tx.maxFeePerGas)
    ELSE HexOrZero(tx.gasPrice)

\* blob_hashes and isinstance(blob_hashes, list) and len(blob_hashes) > 0;
\* blobs is the number of hashes of the record.
HasBlobHashes(tx) == tx.blobs > 0

\* get_symbolic_pool_state raises ValueError: the type of a queued record
\* is parsed outside any try block.
SymbolicRaises(pool) ==
    \E k \in 1..Len(pool.queued) :
        \E j \in 1..Len(pool.queued[k].txs) :
            pool.queued[k].txs[j].type = Malformed

\* future_tx_count
FutureTxCount(pool) ==
    SumSeq([k \in 1..Len(pool.queued) |->
              Cardinality({j \in 1..Len(pool.queued[k].txs) :
                  /\ pool.queued[k].txs[j].nonce = FUTURE_NONCE
                  /\ TxType(pool.queued[k].txs[j]) # 3})])

\* The sum of len(txs_by_nonce_str) over the senders of entries.
TxCountOf(entries) ==
    SumSeq([k \in 1..Len(entries) |-> Len(entries[k].txs)])

\* The classes of a pending sender in the first loop.
IsSkipped(e) == PriceMalformed(FirstTx(e))
IsBlobSender(e) == ~IsSkipped(e) /\ TxType(FirstTx(e)) = 3
IsNormalSender(e) ==
    /\ ~IsSkipped(e) /\ ~IsBlobSender(e)
    /\ TxPrice(FirstTx(e)) = STATE_NORMAL_TX_PRICE_INDICATOR
IsNonNormalSender(e) ==
    /\ ~IsSkipped(e) /\ ~IsBlobSender(e)
    /\ TxPrice(FirstTx(e)) # STATE_NORMAL_TX_PRICE_INDICATOR

\* SenderTxSummary.__lt__ on the senders themselves.
Summary_lt(a, b) == TxPrice(FirstTx(a)) < TxPrice(FirstTx(b))

\* non_normal_sender_summaries after the sort: stable, by first price.
SortedNonNormal(entries) ==
    LET nn == SelectSeq(entries, IsNonNormalSender)
    IN  StableSort(nn, [j \in 1..Len(nn) |-> [k \in 1..Len(nn) |-> Summary_lt(nn[j], nn[k])]])

\* The try block of the second loop raises.
DetailMalformed(tx) == tx.value = Malformed \/ PriceMalformed(tx)

\* TxSymbol with the value of a child compared by >= instead of >.
TxSymbol_ValueAtThreshold(tx, i, is_high_price_parent_chain) ==
    IF DetailMalformed(tx) THEN "O"
    ELSE IF TxType(tx) = 3 THEN (IF HasBlobHashes(tx) THEN "B" ELSE "I")
    ELSE IF i = 1
         THEN (IF TxPrice(tx) >= STATE_PARENT_REPLACEMENT_PRICE_THRESHOLD
               THEN "R" ELSE "P")
         ELSE (IF is_high_price_parent_chain
                  \/ HexOrZero(tx.value) >= STATE_CHILD_VALUE_THRESHOLD
               THEN "O" ELSE "C")

\* The symbol of the i-th record (from 1) of a non-normal sender.
TxSymbol(tx, i, is_high_price_parent_chain) ==
    IF DetailMalformed(tx) THEN "O"
    ELSE IF TxType(tx) = 3 THEN (IF HasBlobHashes(tx) THEN "B" ELSE "I")
    ELSE IF i = 1
         THEN (IF TxPrice(tx) >= STATE_PARENT_REPLACEMENT_PRICE_THRESHOLD
               THEN "R" ELSE "P")
         ELSE (IF is_high_price_parent_chain
                  \/ HexOrZero(tx.value) > STATE_CHILD_VALUE_THRESHOLD
               THEN "O" ELSE "C")

\* The symbols of one non-normal sender.
SenderSymbols(e) ==
    LET txs == SortByNonce(e.txs)
        high == /\ ~DetailMalformed(txs[1])
                /\ TxType(txs[1]) # 3
                /\ TxPrice(txs[1]) >= STATE_PARENT_REPLACEMENT_PRICE_THRESHOLD
    IN  [i \in 1..Len(txs) |-> TxSymbol(txs[i], i, high)]

\* get_symbolic_pool_state(txpool_content, txpool_size_config), when it does
\* not raise.
get_symbolic_pool_state(pool, txpool_size_config) ==
    LET entries == NonEmptySenders(pool.pending)
        future_tx_count == FutureTxCount(pool)
        total_pending_tx_count == TxCountOf(entries)
        blob_tx_count ==
            TxCountOf(SelectSeq(entries, LAMBDA e : IsBlobSender(e) /\ HasBlobHashes(FirstTx(e))))
        invalid_blob_tx_count ==
            TxCountOf(SelectSeq(entries, LAMBDA e : IsBlobSender(e) /\ ~HasBlobHashes(FirstTx(e))))
        normal_sender_tx_count == TxCountOf(SelectSeq(entries, IsNormalSender))
        sorted == SortedNonNormal(entries)
        symbolic_parts ==
            Repeat("N", normal_sender_tx_count)
            \o Concat([k \in 1..Len(sorted) |-> SenderSymbols(sorted[k])])
        total_txs_in_pool == future_tx_count + total_pending_tx_count
                             + blob_tx_count + invalid_blob_tx_count
        empty_slot_count ==
            IF txpool_size_config - total_txs_in_pool > 0
            THEN txpool_size_config - total_txs_in_pool ELSE 0
    IN  Repeat("E", empty_slot_count) \o Repeat("F", future_tx_count)
        \o Repeat("B", blob_tx_count) \o Repeat("I", invalid_blob_tx_count)
        \o symbolic_parts

\* The try block of get_txpool_energy raises on the first record.
EnergyMalformed(first) ==
    \/ PriceMalformed(first)
    \/ /\ TxType(first) = 3 /\ HasBlobHashes(first)
       /\ first.maxFeePerBlobGas = Malformed

\* SenderEnergy with the head of a non-normal chain left uncounted.
SenderEnergy_ChildrenOnly(e) ==
    LET first == FirstTx(e)
    IN  IF ~EnergyMalformed(first) /\ TxType(first) = 3
        THEN IF HasBlobHashes(first)
             THEN (IF \/ HexOrZero(first.maxFeePerBlobGas) < 10
                      \/ HexOrZero(first.maxFeePerBlobGas) > 1000
                   THEN 5 ELSE 0)
             ELSE 10
        ELSE IF EnergyMalformed(first)
                \/ TxPrice(first) # STATE_NORMAL_TX_PRICE_INDICATOR
             THEN Cardinality({k \in 2..Len(e.txs) :
                      /\ e.txs[k].value # Malformed
                      /\ HexOrZero(e.txs[k].value) <= STATE_CHILD_VALUE_THRESHOLD})
             ELSE 3 * Len(e.txs)

\* The energy one pending sender adds, bonus apart.
SenderEnergy(e) ==
    LET first == FirstTx(e)
    IN  IF ~EnergyMalformed(first) /\ TxType(first) = 3
        THEN IF HasBlobHashes(first)
             THEN (IF \/ HexOrZero(first.maxFeePerBlobGas) < 10
                      \/ HexOrZero(first.maxFeePerBlobGas) > 1000
                   THEN 5 ELSE 0)
             ELSE 10
        ELSE IF EnergyMalformed(first)
                \/ TxPrice(first) # STATE_NORMAL_TX_PRICE_INDICATOR
             THEN Cardinality({k \in 1..Len(e.txs) :
                      /\ e.txs[k].value # Malformed
                      /\ HexOrZero(e.txs[k].value) <= STATE_CHILD_VALUE_THRESHOLD})
             ELSE 3 * Len(e.txs)

\* The sender is counted in non_normal_parent_count.
IsEnergyParent(e) ==
    LET first == FirstTx(e)
    IN  \/ EnergyMalformed(first)
        \/ TxType(first) # 3 /\ TxPrice(first) # STATE_NORMAL_TX_PRICE_INDICATOR

\* get_txpool_energy with the bonus of the i-th parent counted from 1.
get_txpool_energy_BonusFromOne(pool) ==
    LET entries == NonEmptySenders(pool.pending)
        non_normal_parent_count == Len(SelectSeq(entries, IsEnergyParent))
        blob_tx_count ==
            TxCountOf(SelectSeq(entries, LAMBDA e : IsBlobSender(e) /\ HasBlobHashes(FirstTx(e))))
        invalid_blob_tx_count ==
            TxCountOf(SelectSeq(entries, LAMBDA e : IsBlobSender(e) /\ ~HasBlobHashes(FirstTx(e))))
    IN  SumSeq([k \in 1..Len(entries) |-> SenderEnergy(entries[k])])
        + SumSeq([k \in 1..non_normal_parent_count |-> 4 + k])
        + blob_tx_count * 2 + invalid_blob_tx_count * 15

\* get_txpool_energy(txpool_content)
get_txpool_energy(pool) ==
    LET entries == NonEmptySenders(pool.pending)
        non_normal_parent_count == Len(SelectSeq(entries, IsEnergyParent))
        blob_tx_count ==
            TxCountOf(SelectSeq(entries, LAMBDA e : IsBlobSender(e) /\ HasBlobHashes(FirstTx(e))))
        invalid_blob_tx_count ==
            TxCountOf(SelectSeq(entries, LAMBDA e : IsBlobSender(e) /\ ~HasBlobHashes(FirstTx(e))))
    IN  SumSeq([k \in 1..Len(entries) |-> SenderEnergy(entries[k])])
        + SumSeq([k \in 1..non_normal_parent_count |-> 4 + (k - 1)])
        + blob_tx_count * 2 + invalid_blob_tx_count * 15

VARIABLES
    seeds,      \* SeedDatabase.seeds: the list of Seed objects
    known,      \* SeedDatabase.known_symbolic_states
    nextId,     \* identity of the next Seed object stored
    lastOp,     \* the last SeedDatabase call: its argument, result and the
                \* database just before it
    popRun,     \* keys of the seeds returned by get_next_seed since the last
                \* add_seed that stored a seed
    initialized \* initialize_with_empty_input has been called

VARIABLES
    pc,                  \* where run_fuzzing is
    driver,              \* the kind of node driver the engine was given
    future_flag_enabled, \* FuzzEngine.future_flag_enabled
    mutation_strategy,   \* the kind of FuzzEngine.mutation_strategy
    iteration_count,     \* run_fuzzing's iteration_count
    current_seed,        \* identity of run_fuzzing's current_seed (0: none)
    mutated_inputs,      \* run_fuzzing's mutated_inputs
    child,               \* position of new_input in mutated_inputs (0: none)
    handled,             \* children of current_seed whose execution result
                         \* run_fuzzing has dealt with
    loop_i,              \* the loop counter i of the executor's current loop
    sent_count,          \* sent_count / sent_normal_count
    current_gas_prices,  \* the fee snapshot of the current execution
    fuzzer_nonces,       \* AccountManager.fuzzer_nonces
    current_fuzzer_account_index,
    new_txpool_state,    \* what _execute_input_sequence returned
    found_exploits,      \* FuzzEngine.found_exploits
    result,              \* what run_fuzzing returned
    execN,               \* number of _execute_input_sequence calls so far
    callLog,             \* the driver calls of the execution whose result
                         \* run_fuzzing has not dealt with yet
    raisedBy             \* the call whose exception left run_fuzzing

VARIABLES
    txpool_content,      \* the argument of a get_symbolic_pool_state call
    symbolic_state,      \* what that call returned
    pool_energy,         \* what get_txpool_energy returned for that pool
    parsed_input,        \* the argument of a _parse_input_to_symbol call
    input_symbol         \* what that call returned

dbVars == <<seeds, known, nextId, lastOp, popRun, initialized>>
engineVars == <<pc, driver, future_flag_enabled, mutation_strategy,
                iteration_count, current_seed,
                mutated_inputs, child, handled, loop_i, sent_count,
                current_gas_prices, fuzzer_nonces,
                current_fuzzer_account_index, new_txpool_state,
                found_exploits, result, execN, callLog, raisedBy>>
absVars == <<txpool_content, symbolic_state, pool_energy, parsed_input,
             input_symbol>>
vars == <<dbVars, engineVars, absVars>>

(***************************************************************************)
(* Seed and SeedDatabase (fuzz_engine.py).                                 *)
(***************************************************************************)
\* Seed.__init__: a new Seed object; id is the object's identity.
Seed(id, fuzz_input, txpool_state, symbolic_state_str, energy) ==
    [id |-> id, fuzz_input |-> fuzz_input, txpool_state |-> txpool_state,
     symbolic_state_str |-> symbolic_state_str, energy |-> energy,
     generation |-> 0]

\* Python's None, where a Seed is expected (the result of get_next_seed).
NoneSeed == [id |-> 0, fuzz_input |-> EmptyInput, txpool_state |-> NonePool,
             symbolic_state_str |-> NoneStr, energy |-> 0, generation |-> 0]

\* A mutant of Seed.__lt__: the generation is compared first, the energy
\* breaks the ties.
Seed_lt_ByGeneration(self, other) ==
    IF self.generation = other.generation
    THEN self.energy < other.energy
    ELSE self.generation < other.generation

\* Seed.__lt__
Seed_lt(self, other) ==
    IF self.energy = other.energy
    THEN self.generation < other.generation
    ELSE self.energy < other.energy

\* (energy, generation) of a is not greater than that of b.
KeyLeq(a, b) ==
    \/ a.energy < b.energy
    \/ a.energy = b.energy /\ a.generation <= b.generation

\* list.sort() on a list of Seeds: stable, by Seed.__lt__.
SortSeeds(s) ==
    StableSort(s, [j \in 1..Len(s) |-> [k \in 1..Len(s) |-> Seed_lt(s[j], s[k])]])

\* A mutant of add_seed: the seed is stored whether or not its state is known.
add_seed_NoDedup(db, seed) ==
    [seeds |-> SortSeeds(Append(db.seeds, seed)),
     known |-> IF seed.symbolic_state_str = NoneStr THEN db.known
               ELSE db.known \cup {seed.symbolic_state_str}]

\* SeedDatabase.add_seed; db is [seeds, known].
add_seed(db, seed) ==
    IF seed.symbolic_state_str = NoneStr
    THEN [seeds |-> SortSeeds(Append(db.seeds, seed)), known |-> db.known]
    ELSE IF seed.symbolic_state_str \notin db.known
         THEN [seeds |-> SortSeeds(Append(db.seeds, seed)),
               known |-> db.known \cup {seed.symbolic_state_str}]
         ELSE db

\* A mutant of get_next_seed: the list is not sorted again after the append.
get_next_seed_NoSort(sds) ==
    IF sds = << >> THEN [seeds |-> sds, ret |-> NoneSeed]
    ELSE LET next_seed == [Head(sds) EXCEPT !.generation = @ + 1]
         IN  [seeds |-> Append(Tail(sds), next_seed), ret |-> next_seed]

\* A mutant of get_next_seed: the seed is popped and never put back.
get_next_seed_NoAppend(sds) ==
    IF sds = << >> THEN [seeds |-> sds, ret |-> NoneSeed]
    ELSE LET next_seed == [Head(sds) EXCEPT !.generation = @ + 1]
         IN  [seeds |-> Tail(sds), ret |-> next_seed]

\* A mutant of get_next_seed: the last seed of the list is taken.
get_next_seed_PopLast(sds) ==
    IF sds = << >> THEN [seeds |-> sds, ret |-> NoneSeed]
    ELSE LET next_seed == [sds[Len(sds)] EXCEPT !.generation = @ + 1]
         IN  [seeds |-> SortSeeds(Append(SubSeq(sds, 1, Len(sds) - 1), next_seed)),
              ret |-> next_seed]

\* SeedDatabase.get_next_seed: [seeds |-> the list after the call,
\* ret |-> the seed returned, or None].
get_next_seed(sds) ==
    IF sds = << >> THEN [seeds |-> sds, ret |-> NoneSeed]
    ELSE LET next_seed == [Head(sds) EXCEPT !.generation = @ + 1]
         IN  [seeds |-> SortSeeds(Append(Tail(sds), next_seed)),
              ret |-> next_seed]

\* SeedDatabase.is_empty
is_empty(sds) == sds = << >>

\* The seed initialize_with_empty_input builds.
InitialSeed(id) == Seed(id, EmptyInput, NonePool, INITIAL_STATE, 0)

(***************************************************************************)
(* Accounts, intents, inputs and the answers of the node (accounts.py,     *)
(* tx.py, clients/).                                                       *)
(***************************************************************************)
\* AccountManager.account_addresses: the address of the account of index k
\* is k itself.
Accounts == 0..(NumAccounts - 1)
\* An address the AccountManager holds no key for.
UnmanagedAddress == 99
\* Python's None, where an address or a private key is expected.
NoneAddr == -1

\* AccountManager.get_account_by_index
get_account_by_index(index) ==
    IF 0 <= index /\ index < NumAccounts THEN index ELSE NoneAddr

\* AccountManager.get_private_key: the key is present, or None.
HasPrivateKey(address) == address \in Accounts

\* AccountManager.reset_all_fuzzer_nonces(DEFAULT_INITIAL_NONCE)
reset_all_fuzzer_nonces == [a \in Accounts |-> DEFAULT_INITIAL_NONCE]

\* A mutant of increment_fuzzer_nonce: the counter goes up by two.
increment_fuzzer_nonce_Twice(nonces, address) ==
    IF address \in DOMAIN nonces
    THEN [nonces EXCEPT ![address] = @ + 2]
    ELSE nonces

\* AccountManager.increment_fuzzer_nonce
increment_fuzzer_nonce(nonces, address) ==
    IF address \in DOMAIN nonces
    THEN [nonces EXCEPT ![address] = @ + 1]
    ELSE nonces

\* tx.Tx: an intent.
FuzzTx(account_manager_index, sender_address, nonce, tx_type, price, max_priority_fee_per_gas, value) ==
    [account_manager_index |-> account_manager_index,
     sender_address |-> sender_address, nonce |-> nonce, tx_type |-> tx_type,
     price |-> price, max_priority_fee_per_gas |-> max_priority_fee_per_gas,
     value |-> value, max_fee_per_blob_gas |-> -1,
     blob_versioned_hashes |-> -1]

\* Python's None, where an intent or a fee is expected.
NoneFee == -1
NoneTx == FuzzTx(-1, NoneAddr, -1, -1, -1, NoneFee, -1)

\* tx.Input
FuzzInput(tx_sequence_to_execute, base_input_indices_to_resend) ==
    [tx_sequence_to_execute |-> tx_sequence_to_execute,
     base_input_indices_to_resend |-> base_input_indices_to_resend]

\* The intents a mutation strategy puts into its inputs here: a parent and
\* its child from the last account, an intent of an address without a key,
\* and an intent with the future nonce.
TxParent == FuzzTx(NumAccounts - 1, NumAccounts - 1, 0, 0, 5, NoneFee, 1)
TxChild == FuzzTx(NumAccounts - 1, NumAccounts - 1, 1, 0, 5, NoneFee, 1)
TxNoKey == FuzzTx(NumAccounts, UnmanagedAddress, 0, 0, 5, NoneFee, 1)
TxFutureNonce == FuzzTx(1, 1, FUTURE_NONCE, 0, 5, NoneFee, 2)

\* An input of a chain of mutations that appended a child and then a
\* replacement (a high-priced intent with nonce 0) to the sequence; the child
\* and the replacement are marked as in the pool.
TxReplacement == FuzzTx(NumAccounts - 1, NumAccounts - 1, 0, 2, 12000, 1, 1)
InputPCR == FuzzInput(<<TxParent, TxChild, TxReplacement>>, <<1, 2>>)

InputPC == FuzzInput(<<TxParent, TxChild>>, <<0>>)
InputNoKey == FuzzInput(<<TxNoKey, TxFutureNonce>>, <<2, 1, 0>>)

\* What MutationStrategy.mutate may return: any list of inputs; these are
\* the lists the model draws from.
ChildLists == { << >>, <<InputPC, InputNoKey>> }

\* What get_txpool_content may return: a pool with one queued future record
\* and nothing pending, a pool with a baseline record and a parent.
PoolFuture ==
    [none |-> FALSE, pending |-> << >>,
     queued |-> <<[sender |-> 0, txs |-> <<PoolTx(FUTURE_NONCE, 2, 3, 2)>>]>>]
PoolNormalParent ==
    [none |-> FALSE,
     pending |-> <<[sender |-> 0, txs |-> <<PoolTx(0, 2, 3, 1)>>],
                   [sender |-> NumAccounts - 1, txs |-> <<PoolTx(0, 0, 5, 1)>>]>>,
     queued |-> << >>]
Pools == {PoolFuture, PoolNormalParent}

\* What get_current_gas_prices may return: a falsy value, or the node's fees.
NoGasPrices == [none |-> TRUE, maxFeePerGas |-> 0, maxPriorityFeePerGas |-> 0]
NodeGasPrices == [none |-> FALSE, maxFeePerGas |-> 100, maxPriorityFeePerGas |-> 1]
GasAnswers == {NoGasPrices, NodeGasPrices}

\* The fallback of the executor when the fee snapshot is falsy.
DefaultGasPrices ==
    [none |-> FALSE, maxFeePerGas |-> STATE_NORMAL_TX_PRICE_INDICATOR,
     maxPriorityFeePerGas |-> STATE_NORMAL_TX_PRICE_INDICATOR]

\* A mutant of generate_future_tx: the intent has the nonce of a first
\* transaction instead of the future nonce.
generate_future_tx_FirstNonce(index, gas_prices) ==
    LET acc_addr == IF get_account_by_index(index) = NoneAddr
                    THEN get_account_by_index(0)
                    ELSE get_account_by_index(index)
    IN  FuzzTx(index, acc_addr, DEFAULT_INITIAL_NONCE, 2, gas_prices.maxFeePerGas,
               gas_prices.maxPriorityFeePerGas, 2)

\* FuzzEngine._generate_future_tx
generate_future_tx(index, gas_prices) ==
    LET acc_addr == IF get_account_by_index(index) = NoneAddr
                    THEN get_account_by_index(0)
                    ELSE get_account_by_index(index)
    IN  FuzzTx(index, acc_addr, FUTURE_NONCE, 2, gas_prices.maxFeePerGas,
               gas_prices.maxPriorityFeePerGas, 2)

\* Pools a parent seed may hold when _execute_input_sequence is called with
\* it: an observed empty pool; more baseline records than txpool_size; the
\* baseline records at the fee of the node instead of the indicator price.
PoolEmpty == [none |-> FALSE, pending |-> << >>, queued |-> << >>]
PoolOverfull ==
    [none |-> FALSE,
     pending |-> [k \in 1..(TxPoolSize + 1) |->
                    [sender |-> k - 1, txs |-> <<PoolTx(0, 2, 3, 1)>>]],
     queued |-> << >>]
PoolNodeFee ==
    [none |-> FALSE,
     pending |-> [k \in 1..TxPoolSize |->
                    [sender |-> k - 1, txs |-> <<PoolTx(0, 2, 100, 1)>>]],
     queued |-> << >>]

\* The intents of a sequence whose sender the AccountManager has a key for:
\* the executor sends these and skips the others.
Keyed(sequence) == SelectSeq(sequence, LAMBDA tx : HasPrivateKey(tx.sender_address))

\* The positions of txs the node still holds when it has accepted every
\* transfer of txs: a transfer accepted for the sender and nonce of an
\* earlier one has replaced it.
HeldPositions(txs) ==
    SelectSeq([k \in 1..Len(txs) |-> k],
              LAMBDA k : \A j \in (k + 1)..Len(txs) :
                            \/ txs[j].sender_address # txs[k].sender_address
                            \/ txs[j].nonce # txs[k].nonce)

\* The first nonce from 0 the node does not hold for the sender.
NonceGap(txs, sender) ==
    CHOOSE n \in 0..Len(txs) :
        /\ \A k \in 1..Len(txs) :
              txs[k].sender_address = sender => txs[k].nonce # n
        /\ \A m \in 0..(n - 1) : \E k \in 1..Len(txs) :
              txs[k].sender_address = sender /\ txs[k].nonce = m

\* One dict of the pool of the node: the senders in the order of their first
\* transfer, each with the records held that are executable (pending) or
\* not (queued).
NodeDict(txs, executable) ==
    LET held == HeldPositions(txs)
        first == SelectSeq([k \in 1..Len(txs) |-> k],
                     LAMBDA k : \A j \in 1..(k - 1) :
                                   txs[j].sender_address # txs[k].sender_address)
        records(sender) ==
            LET mine == SelectSeq(held, LAMBDA k :
                            /\ txs[k].sender_address = sender
                            /\ (txs[k].nonce < NonceGap(txs, sender)) = executable)
            IN  [i \in 1..Len(mine) |->
                    PoolTx(txs[mine[i]].nonce, txs[mine[i]].tx_type,
                           txs[mine[i]].price, txs[mine[i]].value)]
    IN  NonEmptySenders([i \in 1..Len(first) |->
            [sender |-> txs[first[i]].sender_address,
             txs |-> records(txs[first[i]].sender_address)]])

\* get_txpool_content() of a node that was reset, then accepted the
\* transfers txs and has mined none of them.
NodePool(txs) ==
    [none |-> FALSE, pending |-> NodeDict(txs, TRUE),
     queued |-> NodeDict(txs, FALSE)]

\* The intents _reset_and_initial_pool_setup sends when no send fails: a
\* baseline intent of each of the first accounts, then the future intents.
ColdBaseline(gas_prices, future_flag) ==
    LET count == IF NumAccounts < TxPoolSize THEN NumAccounts ELSE TxPoolSize
    IN  [i \in 1..count |->
            FuzzTx(i - 1, get_account_by_index(i - 1), DEFAULT_INITIAL_NONCE, 2,
                   gas_prices.maxFeePerGas, gas_prices.maxPriorityFeePerGas, 1)]
        \o (IF future_flag
            THEN [i \in 1..DEFAULT_FUTURE_SLOTS |->
                     generate_future_tx(i - 1, gas_prices)]
            ELSE << >>)

\* The pool the node holds after the cold-path execution of an input in
\* which no send failed.
ColdPool(input, gas_prices, future_flag) ==
    NodePool(ColdBaseline(gas_prices, future_flag)
             \o Keyed(input.tx_sequence_to_execute))

\* The fee snapshots of an execution.
FeeSnapshots == {DefaultGasPrices, NodeGasPrices}

ColdPools ==
    {ColdPool(input, g, f) : input \in {InputPC, InputNoKey},
                             g \in FeeSnapshots, f \in BOOLEAN}

ParentPools ==
    {PoolEmpty, PoolFuture, PoolNormalParent, PoolOverfull, PoolNodeFee}
    \cup ColdPools

\* get_symbolic_pool_state(pool, self.txpool_size) and
\* get_txpool_energy(pool) of the pools the node may answer, tabulated.
SymbolicStateOf ==
    [pool \in Pools \cup ParentPools |-> get_symbolic_pool_state(pool, TxPoolSize)]
EnergyOf == [pool \in Pools |-> get_txpool_energy(pool)]
\* The pools the exploit detector of the model flags.
FlaggedPools == {PoolFuture}

\* The kinds of node driver: reset_state works; reset_state raises
\* NotImplementedError and clear_txpool_custom returns True, returns False,
\* or does not exist (the IEthereumClient interface has no such method).
Drivers == {"reset", "clear", "noclear", "noattr"}

\* What run_fuzzing has not returned yet.
NoResult == <<[no_result |-> TRUE]>>

\* The engine as FuzzEngine.__init__ leaves it, run_fuzzing being at p; its
\* mutation strategy is any strategy: one whose mutate returns any list of
\* inputs.
EngineConstructed(p, d, f) ==
    /\ pc = p
    /\ driver = d
    /\ future_flag_enabled = f
    /\ mutation_strategy = "any"
    /\ iteration_count = 0
    /\ current_seed = 0
    /\ mutated_inputs = << >>
    /\ child = 0
    /\ handled = 0
    /\ loop_i = 0
    /\ sent_count = 0
    /\ current_gas_prices = NoGasPrices
    /\ fuzzer_nonces = reset_all_fuzzer_nonces
    /\ current_fuzzer_account_index = 0
    /\ new_txpool_state = NonePool
    /\ found_exploits = << >>
    /\ result = NoResult
    /\ execN = 0
    /\ callLog = << >>
    /\ raisedBy = "none"

(***************************************************************************)
(* SpecDB: the calls of a SeedDatabase, in any order.                      *)
(***************************************************************************)
NoOp == [op |-> "none", seed |-> NoneSeed, ret |-> NoneSeed,
         before |-> << >>, knownBefore |-> {}]

\* The bookkeeping of one add_seed call.
AdmitEffect(seed) ==
    \E db \in {add_seed([seeds |-> seeds, known |-> known], seed)} :
        /\ seeds' = db.seeds
        /\ known' = db.known
        /\ nextId' = IF db.seeds = seeds THEN nextId ELSE nextId + 1
        /\ lastOp' = [op |-> "admit", seed |-> seed, ret |-> NoneSeed,
                      before |-> seeds, knownBefore |-> known]
        /\ popRun' = IF db.seeds = seeds THEN popRun ELSE << >>

\* The bookkeeping of one get_next_seed call.
PopEffect ==
    \E r \in {get_next_seed(seeds)} :
        /\ seeds' = r.seeds
        /\ lastOp' = [op |-> "pop", seed |-> NoneSeed, ret |-> r.ret,
                      before |-> seeds, knownBefore |-> known]
        /\ popRun' = IF r.ret = NoneSeed THEN popRun
                     ELSE Append(popRun, [energy |-> r.ret.energy,
                                          generation |-> r.ret.generation])
        /\ UNCHANGED <<known, nextId>>

\* SeedDatabase.__init__
DbConstructed ==
    /\ seeds = << >>
    /\ known = {}
    /\ nextId = 1
    /\ lastOp = NoOp
    /\ popRun = << >>
    /\ initialized = FALSE

\* get_txpool_energy has not returned.
NoEnergy == -1

\* No get_symbolic_pool_state, get_txpool_energy or _parse_input_to_symbol
\* call is being followed.
NoAbstraction ==
    /\ txpool_content = NonePool
    /\ symbolic_state = NoneStr
    /\ pool_energy = NoEnergy
    /\ parsed_input = EmptyInput
    /\ input_symbol = NoneStr

DbInit ==
    /\ DbConstructed
    /\ EngineConstructed("idle", "reset", FALSE)
    /\ NoAbstraction

\* SeedDatabase.initialize_with_empty_input
DbInitialize ==
    /\ pc = "idle"
    /\ ~initialized
    /\ nextId <= MaxAdmits
    /\ AdmitEffect(InitialSeed(nextId))
    /\ initialized' = TRUE
    /\ UNCHANGED <<engineVars, absVars>>

\* SeedDatabase.add_seed(Seed(...)), any fingerprint and energy.
DbAdmit ==
    /\ pc = "idle"
    /\ nextId <= MaxAdmits
    /\ \E fp \in DbFingerprints, e \in 0..MaxEnergy :
          AdmitEffect(Seed(nextId, EmptyInput, NonePool, fp, e))
    /\ UNCHANGED <<initialized, engineVars, absVars>>

\* SeedDatabase.get_next_seed()
DbPop ==
    /\ pc = "idle"
    /\ Len(popRun) < MaxPops
    /\ \A i \in 1..Len(seeds) : seeds[i].generation < MaxPops
    /\ PopEffect
    /\ UNCHANGED <<initialized, engineVars, absVars>>

DbNext == DbInitialize \/ DbAdmit \/ DbPop

SpecDB == DbInit /\ [][DbNext]_vars

(***************************************************************************)
(* FuzzEngine.run_fuzzing and the executor (fuzz_engine.py). One action    *)
(* per driver call, mutate call or loop head.                              *)
(***************************************************************************)
cfgVars == <<driver, future_flag_enabled, mutation_strategy>>
loopVars == <<iteration_count, current_seed, mutated_inputs, child>>
sendVars == <<loop_i, sent_count, fuzzer_nonces, current_fuzzer_account_index>>
outVars == <<found_exploits, result>>

\* The Seed object run_fuzzing holds in current_seed.
CurrentSeed == CHOOSE sd \in {seeds[k] : k \in 1..Len(seeds)} : sd.id = current_seed

\* new_input
NewInput == mutated_inputs[child]

\* A mutant of IsColdPath: a pool without records is taken for no pool
\* (if not initial_pool_state_to_recreate).
IsColdPath_Falsy ==
    \/ CurrentSeed.txpool_state.none
    \/ /\ CurrentSeed.txpool_state.pending = << >>
       /\ CurrentSeed.txpool_state.queued = << >>

\* _execute_input_sequence takes its first branch (initial_pool_state_to_recreate
\* is None): the cold path; otherwise the warm path.
IsColdPath == CurrentSeed.txpool_state.none

\* symbolic_base_state
SymbolicBaseState == SymbolicStateOf[CurrentSeed.txpool_state]

\* An entry of callLog: a driver call of the current execution.
LogEntry(call, kind, tx, res) ==
    [call |-> call, exec |-> execN, kind |-> kind, tx |-> tx, res |-> res]

\* What sign_and_send_transfer may do: return a hash, return a falsy value,
\* raise.
SendAnswers == {"ok", "none", "raise"}

\* What reset_state does, an unexpected exception apart.
ResetAnswer(d) == IF d = "reset" THEN "ok" ELSE "unsupported"

\* sorted(list of ints)
SortInts(xs) ==
    StableSort(xs, [j \in 1..Len(xs) |-> [k \in 1..Len(xs) |-> xs[j] < xs[k]]])

\* A mutant of LoopCondition: one iteration more than max_iterations.
LoopCondition_OneMore(sds, count, timed_out) ==
    ~is_empty(sds) /\ count <= MaxIterations /\ ~timed_out

\* The condition of run_fuzzing's while loop; timed_out is
\* time.time() - start_time >= global_timeout_seconds.
LoopCondition(sds, count, timed_out) ==
    ~is_empty(sds) /\ count < MaxIterations /\ ~timed_out

\* A mutant of ForLoopDone: the loop over the children is left after the
\* first child.
ForLoopDone_AfterFirst(c, inputs) == c >= 1 \/ c = Len(inputs)

\* The for loop over mutated_inputs has no input left.
ForLoopDone(c, inputs) == c = Len(inputs)

\* run_fuzzing up to the loop: the seed database gets its initial seed.
RunStart ==
    /\ pc = "start"
    /\ AdmitEffect(InitialSeed(nextId))
    /\ initialized' = TRUE
    /\ pc' = "while"
    /\ UNCHANGED <<absVars, cfgVars, loopVars, handled, sendVars, current_gas_prices,
                   new_txpool_state, outVars, execN, callLog, raisedBy>>

\* The while condition is false: run_fuzzing returns found_exploits.
LoopExit ==
    /\ pc = "while"
    /\ \E timed_out \in BOOLEAN :
          ~LoopCondition(seeds, iteration_count, timed_out)
    /\ pc' = "returned"
    /\ result' = found_exploits
    /\ UNCHANGED <<absVars, dbVars, cfgVars, loopVars, handled, sendVars,
                   current_gas_prices, new_txpool_state, found_exploits,
                   execN, callLog, raisedBy>>

\* The while condition is true: the iteration is counted and a seed popped.
LoopIterate ==
    /\ pc = "while"
    /\ LoopCondition(seeds, iteration_count, FALSE)
    /\ iteration_count' = iteration_count + 1
    /\ PopEffect
    /\ IF get_next_seed(seeds).ret = NoneSeed
       THEN /\ pc' = "returned"
            /\ result' = found_exploits
            /\ UNCHANGED current_seed
       ELSE /\ pc' = "mutate"
            /\ current_seed' = get_next_seed(seeds).ret.id
            /\ UNCHANGED result
    /\ UNCHANGED <<absVars, initialized, cfgVars, mutated_inputs, child, handled,
                   sendVars, current_gas_prices, new_txpool_state,
                   found_exploits, execN, callLog, raisedBy>>

\* mutation_strategy.mutate(...): returns a list of inputs, or raises.
Mutate ==
    /\ pc = "mutate"
    /\ \/ /\ \E out \in ChildLists : mutated_inputs' = out
          /\ child' = 0
          /\ handled' = 0
          /\ pc' = "for"
          /\ UNCHANGED raisedBy
       \/ /\ pc' = "raised"
          /\ raisedBy' = "mutate"
          /\ UNCHANGED <<mutated_inputs, child, handled>>
    /\ UNCHANGED <<absVars, dbVars, cfgVars, iteration_count, current_seed, sendVars,
                   current_gas_prices, new_txpool_state, outVars, execN,
                   callLog>>

\* The head of the for loop over mutated_inputs: the next child's execution
\* begins, or the loop is left for the while condition.
NextChild ==
    /\ pc = "for"
    /\ IF ForLoopDone(child, mutated_inputs)
       THEN /\ pc' = "while"
            /\ UNCHANGED <<child, execN>>
       ELSE /\ pc' = "reset"
            /\ child' = child + 1
            /\ execN' = execN + 1
    /\ UNCHANGED <<absVars, dbVars, cfgVars, iteration_count, current_seed,
                   mutated_inputs, handled, sendVars, current_gas_prices,
                   new_txpool_state, outVars, callLog, raisedBy>>

\* client.reset_state() of either path: NotImplementedError is caught, any
\* other exception is not. On the cold path the executor goes on after
\* NotImplementedError; on the warm path it calls clear_txpool_custom.
ResetState ==
    /\ pc = "reset"
    /\ \E res \in {ResetAnswer(driver), "raise"} :
          /\ callLog' = <<LogEntry("reset", "reset", NoneTx, res)>>
          /\ IF res = "raise"
             THEN pc' = "raised" /\ raisedBy' = "reset"
             ELSE /\ pc' = IF res = "ok" \/ IsColdPath THEN "fees" ELSE "clear"
                  /\ UNCHANGED raisedBy
    /\ UNCHANGED <<absVars, dbVars, cfgVars, loopVars, handled, sendVars,
                   current_gas_prices, new_txpool_state, outVars, execN>>

\* A mutant of ClearTxpool: a falsy result of clear_txpool_custom is ignored
\* and the execution goes on with the pool as it is.
ClearTxpool_Ignored ==
    /\ pc = "clear"
    /\ driver \in {"clear", "noclear", "noattr"}
    /\ LET res == IF driver = "clear" THEN "ok"
                  ELSE IF driver = "noclear" THEN "none" ELSE "raise"
       IN  /\ callLog' = Append(callLog, LogEntry("clear", "clear", NoneTx, res))
           /\ pc' = IF res = "raise" THEN "raised" ELSE "fees"
           /\ raisedBy' = IF res = "raise" THEN "clear" ELSE raisedBy
           /\ UNCHANGED new_txpool_state
    /\ UNCHANGED <<absVars, dbVars, cfgVars, loopVars, handled, sendVars,
                   current_gas_prices, outVars, execN>>

\* client.clear_txpool_custom() of the warm path: a falsy result makes
\* _execute_input_sequence return None.
ClearTxpool ==
    /\ pc = "clear"
    /\ driver \in {"clear", "noclear", "noattr"}
    /\ LET res == IF driver = "clear" THEN "ok"
                  ELSE IF driver = "noclear" THEN "none" ELSE "raise"
       IN  /\ callLog' = Append(callLog, LogEntry("clear", "clear", NoneTx, res))
           /\ pc' = IF res = "ok" THEN "fees"
                    ELSE IF res = "none" THEN "analyze" ELSE "raised"
           /\ raisedBy' = IF res = "raise" THEN "clear" ELSE raisedBy
           /\ new_txpool_state' = IF res = "none" THEN NonePool
                                  ELSE new_txpool_state
    /\ UNCHANGED <<absVars, dbVars, cfgVars, loopVars, handled, sendVars,
                   current_gas_prices, outVars, execN>>

\* The nonces and the account counter are reset and the fee snapshot is
\* taken, with the default fees for a falsy answer.
FetchGasPrices ==
    /\ pc = "fees"
    /\ fuzzer_nonces' = reset_all_fuzzer_nonces
    /\ current_fuzzer_account_index' = 0
    /\ \E answer \in GasAnswers :
          current_gas_prices' = IF answer.none THEN DefaultGasPrices ELSE answer
    /\ loop_i' = 0
    /\ sent_count' = 0
    /\ pc' = "normal"
    /\ UNCHANGED <<absVars, dbVars, cfgVars, loopVars, handled, new_txpool_state,
                   outVars, execN, callLog, raisedBy>>

\* The number of baseline sends the loop over the accounts aims at:
\* initial_normal_tx_count (here txpool_size) on the cold path,
\* normal_tx_count_in_base on the warm path.
NormalTarget ==
    IF IsColdPath THEN TxPoolSize ELSE Count(SymbolicBaseState, "N")

\* The number of rounds of the loop over the future transactions.
FutureTarget ==
    IF IsColdPath THEN DEFAULT_FUTURE_SLOTS ELSE Count(SymbolicBaseState, "F")

\* The baseline ('normal') intent of account loop_i.
NormalTx(sender_addr) ==
    FuzzTx(loop_i, sender_addr, fuzzer_nonces[sender_addr], 2,
           current_gas_prices.maxFeePerGas,
           current_gas_prices.maxPriorityFeePerGas, 1)

\* The bookkeeping of one sign_and_send_transfer call that answered res; an
\* exception of the call leaves run_fuzzing.
SendCall(kind, tx, res, next_pc) ==
    /\ callLog' = Append(callLog, LogEntry("send", kind, tx, res))
    /\ pc' = IF res = "raise" THEN "raised" ELSE next_pc
    /\ raisedBy' = IF res = "raise" THEN "send" ELSE raisedBy

\* One round of the loop over the accounts that sends the baseline intents
\* (cold path: the initial pool setup; warm path: the re-send of the N part).
SendNormal ==
    /\ pc = "normal"
    /\ LET sender_addr == get_account_by_index(loop_i)
       IN  IF \/ loop_i >= TxPoolSize
              \/ sent_count >= NormalTarget
              \/ sender_addr = NoneAddr
           THEN /\ pc' = "future"
                /\ loop_i' = 0
                /\ UNCHANGED <<sent_count, fuzzer_nonces, callLog, raisedBy>>
           ELSE IF ~IsColdPath /\ ~HasPrivateKey(sender_addr)
           THEN /\ loop_i' = loop_i + 1
                /\ UNCHANGED <<pc, sent_count, fuzzer_nonces, callLog, raisedBy>>
           ELSE \E res \in SendAnswers :
                   /\ SendCall("normal", NormalTx(sender_addr), res, "normal")
                   /\ loop_i' = loop_i + 1
                   /\ IF res = "ok"
                      THEN /\ fuzzer_nonces' =
                                 increment_fuzzer_nonce(fuzzer_nonces, sender_addr)
                           /\ sent_count' = sent_count + 1
                      ELSE UNCHANGED <<sent_count, fuzzer_nonces>>
    /\ UNCHANGED <<absVars, dbVars, cfgVars, loopVars, handled,
                   current_fuzzer_account_index, current_gas_prices,
                   new_txpool_state, outVars, execN>>

\* One round of the loop that sends the future intents, if enabled.
SendFuture ==
    /\ pc = "future"
    /\ LET future_tx == generate_future_tx(current_fuzzer_account_index,
                                           current_gas_prices)
       IN  IF ~future_flag_enabled \/ loop_i >= FutureTarget
           THEN /\ pc' = IF IsColdPath THEN "input" ELSE "resend"
                /\ loop_i' = 0
                /\ UNCHANGED <<current_fuzzer_account_index, callLog, raisedBy>>
           ELSE IF ~HasPrivateKey(future_tx.sender_address)
           THEN /\ loop_i' = loop_i + 1
                /\ UNCHANGED <<pc, current_fuzzer_account_index, callLog, raisedBy>>
           ELSE \E res \in SendAnswers :
                   /\ SendCall("future", future_tx, res, "future")
                   /\ loop_i' = loop_i + 1
                   /\ current_fuzzer_account_index' =
                         IF res = "ok" THEN current_fuzzer_account_index + 1
                         ELSE current_fuzzer_account_index
    /\ UNCHANGED <<absVars, dbVars, cfgVars, loopVars, handled, sent_count,
                   fuzzer_nonces, current_gas_prices, new_txpool_state,
                   outVars, execN>>

\* One round of the warm path's loop over the sorted
\* base_input_indices_to_resend of the parent's input.
SendResend ==
    /\ pc = "resend"
    /\ LET base == CurrentSeed.fuzz_input
           sorted_indices == SortInts(base.base_input_indices_to_resend)
       IN  IF loop_i >= Len(sorted_indices)
           THEN /\ pc' = "input"
                /\ loop_i' = 0
                /\ UNCHANGED <<callLog, raisedBy>>
           ELSE LET idx == sorted_indices[loop_i + 1]
                IN  IF idx >= Len(base.tx_sequence_to_execute)
                       \/ ~HasPrivateKey(base.tx_sequence_to_execute[idx + 1].sender_address)
                    THEN /\ loop_i' = loop_i + 1
                         /\ UNCHANGED <<pc, callLog, raisedBy>>
                    ELSE \E res \in SendAnswers :
                            /\ SendCall("resend",
                                        base.tx_sequence_to_execute[idx + 1],
                                        res, "resend")
                            /\ loop_i' = loop_i + 1
    /\ UNCHANGED <<absVars, dbVars, cfgVars, loopVars, handled, sent_count,
                   fuzzer_nonces, current_fuzzer_account_index,
                   current_gas_prices, new_txpool_state, outVars, execN>>

\* One round of the loop over the intents of input_to_execute. The cold path
\* ignores the answer; the warm path increments the sender's nonce after a
\* send that succeeded, unless the intent has the future nonce.
SendInput ==
    /\ pc = "input"
    /\ LET sequence == NewInput.tx_sequence_to_execute
       IN  IF loop_i >= Len(sequence)
           THEN /\ pc' = "capture"
                /\ loop_i' = 0
                /\ UNCHANGED <<fuzzer_nonces, callLog, raisedBy>>
           ELSE LET tx_intent == sequence[loop_i + 1]
                IN  IF ~HasPrivateKey(tx_intent.sender_address)
                    THEN /\ loop_i' = loop_i + 1
                         /\ UNCHANGED <<pc, fuzzer_nonces, callLog, raisedBy>>
                    ELSE \E res \in SendAnswers :
                            /\ SendCall("input", tx_intent, res, "input")
                            /\ loop_i' = loop_i + 1
                            /\ fuzzer_nonces' =
                                  IF /\ ~IsColdPath
                                     /\ res = "ok"
                                     /\ tx_intent.nonce # FUTURE_NONCE
                                  THEN increment_fuzzer_nonce(fuzzer_nonces,
                                           tx_intent.sender_address)
                                  ELSE fuzzer_nonces
    /\ UNCHANGED <<absVars, dbVars, cfgVars, loopVars, handled, sent_count,
                   current_fuzzer_account_index, current_gas_prices,
                   new_txpool_state, outVars, execN>>

\* client.get_txpool_content(): _execute_input_sequence returns its answer,
\* and its local variables are gone.
Capture ==
    /\ pc = "capture"
    /\ \E pool \in Pools : new_txpool_state' = pool
    /\ pc' = "analyze"
    /\ loop_i' = 0
    /\ sent_count' = 0
    /\ current_gas_prices' = NoGasPrices
    /\ UNCHANGED <<absVars, dbVars, cfgVars, loopVars, handled, fuzzer_nonces,
                   current_fuzzer_account_index, outVars, execN, callLog,
                   raisedBy>>

\* A mutant of check_condition: what the detector flags is not seen.
check_condition_Ignored(pool) == FALSE

\* exploit_condition.check_condition of the detector the engine was given:
\* it flags the pools of FlaggedPools.
check_condition(pool) == pool \in FlaggedPools

\* The entry run_fuzzing appends to found_exploits.
ExploitEntry(new_input, new_symbolic_state, new_txpool_state_, seed_generation) ==
    [input |-> new_input, end_state_symbol |-> new_symbolic_state,
     raw_txpool_state |-> new_txpool_state_, seed_generation |-> seed_generation]

\* The account counter after a child whose execution returned a pool.
AccountIndexAfter(new_input, index) ==
    LET sequence == new_input.tx_sequence_to_execute
    IN  IF sequence # << >>
           /\ sequence[Len(sequence)].account_manager_index >= index
        THEN sequence[Len(sequence)].account_manager_index + 1
        ELSE index

\* run_fuzzing deals with what the execution returned: None skips the
\* child; a pool is abstracted, scored, shown to the exploit detector
\* and offered to the seed database.
Analyze ==
    /\ pc = "analyze"
    /\ IF new_txpool_state.none
       THEN /\ pc' = "for"
            /\ handled' = handled + 1
            /\ UNCHANGED <<dbVars, current_fuzzer_account_index,
                           found_exploits, raisedBy>>
       ELSE IF SymbolicRaises(new_txpool_state)
       THEN /\ pc' = "raised"
            /\ raisedBy' = "abstract"
            /\ UNCHANGED <<dbVars, current_fuzzer_account_index,
                           found_exploits, handled>>
       ELSE \E new_symbolic_state \in {SymbolicStateOf[new_txpool_state]},
               new_energy \in {EnergyOf[new_txpool_state]} :
               /\ current_fuzzer_account_index' =
                     AccountIndexAfter(NewInput, current_fuzzer_account_index)
               /\ found_exploits' =
                     IF check_condition(new_txpool_state)
                     THEN Append(found_exploits,
                                 ExploitEntry(NewInput, new_symbolic_state,
                                              new_txpool_state,
                                              CurrentSeed.generation))
                     ELSE found_exploits
               /\ \E new_seed \in {Seed(nextId, NewInput, new_txpool_state,
                                         new_symbolic_state, new_energy)} :
                     AdmitEffect(new_seed)
               /\ pc' = "for"
               /\ handled' = handled + 1
               /\ UNCHANGED <<initialized, raisedBy>>
    /\ callLog' = IF ~new_txpool_state.none /\ SymbolicRaises(new_txpool_state)
                  THEN callLog ELSE << >>
    /\ UNCHANGED <<absVars, cfgVars, loopVars, loop_i, sent_count, fuzzer_nonces,
                   current_gas_prices, new_txpool_state, result, execN>>

\* A FuzzEngine just constructed, with any driver and either setting of
\* future_flag_enabled, on which run_fuzzing is called.
Init ==
    /\ DbConstructed
    /\ \E d \in Drivers, f \in BOOLEAN : EngineConstructed("start", d, f)
    /\ NoAbstraction

Next ==
    \/ RunStart
    \/ LoopExit
    \/ LoopIterate
    \/ Mutate
    \/ NextChild
    \/ ResetState
    \/ ClearTxpool
    \/ FetchGasPrices
    \/ SendNormal
    \/ SendFuture
    \/ SendResend
    \/ SendInput
    \/ Capture
    \/ Analyze

Spec == Init /\ [][Next]_vars

\* run_fuzzing is one sequential thread: it takes its next step whenever it
\* has one.
FairSpec == Spec /\ WF_vars(Next)

(***************************************************************************)
(* SpecExec: one call of _execute_input_sequence(input_to_execute,          *)
(* initial_pool_state_to_recreate, base_input_for_recreation), as            *)
(* run_fuzzing makes it for a child of the seed it holds.                    *)
(***************************************************************************)
\* The (fuzz_input, txpool_state) of the seed held: the initial seed, or a
\* seed admitted with an input and a pool.
ParentSeeds ==
    {[fuzz_input |-> EmptyInput, txpool_state |-> NonePool]}
    \cup [fuzz_input : {InputPC, InputNoKey}, txpool_state : ParentPools]
    \cup [fuzz_input : {InputPCR}, txpool_state : {PoolEmpty, PoolNormalParent}]

\* The inputs executed.
TargetInputs == {EmptyInput, InputPC, InputNoKey}

\* The nonce counters an earlier execution may have left.
NoncesBefore == {reset_all_fuzzer_nonces, [a \in Accounts |-> 1]}

\* run_fuzzing holds a popped seed and calls _execute_input_sequence for the
\* only child of its mutated_inputs.
ExecInit ==
    \E parent \in ParentSeeds, target \in TargetInputs, d \in Drivers,
       f \in BOOLEAN, nonces \in NoncesBefore, index \in {0, NumAccounts} :
        /\ seeds = <<[Seed(1, parent.fuzz_input, parent.txpool_state,
                           IF parent.txpool_state.none THEN INITIAL_STATE
                           ELSE SymbolicStateOf[parent.txpool_state], 0)
                      EXCEPT !.generation = 1]>>
        /\ known = {seeds[1].symbolic_state_str}
        /\ nextId = 2
        /\ lastOp = NoOp
        /\ popRun = << >>
        /\ initialized = TRUE
        /\ pc = "reset"
        /\ driver = d
        /\ future_flag_enabled = f
        /\ mutation_strategy = "any"
        /\ iteration_count = 1
        /\ current_seed = 1
        /\ mutated_inputs = <<target>>
        /\ child = 1
        /\ handled = 0
        /\ loop_i = 0
        /\ sent_count = 0
        /\ current_gas_prices = NoGasPrices
        /\ fuzzer_nonces = nonces
        /\ current_fuzzer_account_index = index
        /\ new_txpool_state = NonePool
        /\ found_exploits = << >>
        /\ result = NoResult
        /\ execN = 1
        /\ callLog = << >>
        /\ raisedBy = "none"
        /\ NoAbstraction

ExecNext ==
    \/ ResetState
    \/ ClearTxpool
    \/ FetchGasPrices
    \/ SendNormal
    \/ SendFuture
    \/ SendResend
    \/ SendInput
    \/ Capture

SpecExec == ExecInit /\ [][ExecNext]_vars

(***************************************************************************)
(* Properties of the seed database.                                        *)
(***************************************************************************)
\* The Seed objects of a list, by identity.
Ids(s) == {s[i].id : i \in 1..Len(s)}
\* The Seed objects of a list, by value.
Range(s) == {s[i] : i \in 1..Len(s)}

\* C1: add_seed of a seed whose fingerprint is already covered changes
\* neither the stored seeds nor the covered set; otherwise the seed is stored
\* and its fingerprint added to the covered set. So no two stored seeds share
\* a fingerprint.
C1_AdmitDedups ==
    /\ lastOp.op = "admit" =>
          IF lastOp.seed.symbolic_state_str \in lastOp.knownBefore
          THEN seeds = lastOp.before /\ known = lastOp.knownBefore
          ELSE /\ Range(seeds) = Range(lastOp.before) \cup {lastOp.seed}
               /\ Len(seeds) = Len(lastOp.before) + 1
               /\ known = lastOp.knownBefore \cup {lastOp.seed.symbolic_state_str}
    /\ \A i, j \in 1..Len(seeds) :
          i # j => seeds[i].symbolic_state_str # seeds[j].symbolic_state_str

\* An admit was dropped, after a get_next_seed, with two seeds stored.
C1_Witness ==
    /\ lastOp.op = "admit"
    /\ lastOp.seed.symbolic_state_str \in lastOp.knownBefore
    /\ Len(seeds) = 2
    /\ \E i \in 1..2 : seeds[i].generation > 0

\* C2: get_next_seed on a non-empty database returns a seed whose
\* (energy, generation) was minimal among the stored seeds, with its
\* generation raised by exactly one, and keeps it (and every other seed)
\* stored; it returns None exactly when the database is empty.
C2_PopBest ==
    lastOp.op = "pop" =>
        /\ (lastOp.ret = NoneSeed) <=> (lastOp.before = << >>)
        /\ lastOp.before = << >> => seeds = << >>
        /\ lastOp.before # << >> =>
              \E i \in 1..Len(lastOp.before) :
                 /\ \A j \in 1..Len(lastOp.before) :
                       KeyLeq(lastOp.before[i], lastOp.before[j])
                 /\ lastOp.ret = [lastOp.before[i] EXCEPT !.generation = @ + 1]
                 /\ Len(seeds) = Len(lastOp.before)
                 /\ Range(seeds) =
                       (Range(lastOp.before) \ {lastOp.before[i]}) \cup {lastOp.ret}

\* A seed was returned from a database of at least two seeds with different keys.
C2_Witness ==
    /\ lastOp.op = "pop"
    /\ Len(lastOp.before) >= 2
    /\ \E i, j \in 1..Len(lastOp.before) :
          ~KeyLeq(lastOp.before[i], lastOp.before[j])
    /\ lastOp.ret.generation >= 2

\* C3: the seeds returned by successive get_next_seed calls, with no seed
\* admitted in between, are non-decreasing in (energy, generation).
C3_PopsMonotone ==
    \A i, j \in 1..Len(popRun) : i <= j => KeyLeq(popRun[i], popRun[j])

\* Three pops in a row that returned seeds of different keys.
C3_Witness ==
    /\ Len(popRun) >= 3
    /\ popRun[1] # popRun[2]
    /\ popRun[2] # popRun[3]

\* C4: Seed.__lt__ is a strict total order on the stored seeds: of any two
\* distinct stored seeds exactly one precedes the other.
C4_StrictTotalOrder ==
    \A i, j \in 1..Len(seeds) :
        i # j => (Seed_lt(seeds[i], seeds[j]) # Seed_lt(seeds[j], seeds[i]))

\* C5: no call removes a stored seed, the seed count never decreases, and
\* after initialize_with_empty_input the database is never empty.
C5_SeedsRetained ==
    /\ [][Ids(seeds) \subseteq Ids(seeds') /\ Len(seeds') >= Len(seeds)]_vars
    /\ [](initialized => ~is_empty(seeds))

\* The database was initialized, holds two seeds and a seed was popped twice.
C5_Witness ==
    /\ initialized
    /\ lastOp.op = "pop"
    /\ Len(seeds) >= 2
    /\ lastOp.ret.generation >= 2

(***************************************************************************)
(* Properties of run_fuzzing.                                              *)
(***************************************************************************)
\* The number of get_next_seed calls that returned a seed: every one of them
\* raised the generation of one stored seed by one.
TotalPops == SumSeq([k \in 1..Len(seeds) |-> seeds[k].generation])

\* The positions of run_fuzzing inside _execute_input_sequence.
ExecutionPcs == {"reset", "clear", "fees", "normal", "future", "resend",
                 "input", "capture"}

\* The place of a driver call in the order of an execution's calls.
PhaseRank(kind) ==
    CASE kind = "reset" -> 0
      [] kind = "clear" -> 1
      [] kind = "normal" -> 2
      [] kind = "future" -> 3
      [] kind = "resend" -> 4
      [] kind = "input" -> 5

\* C6: run_fuzzing pops at most max_iterations seeds, what it returns is the
\* exploit log, and, every call taking its step, it is left in the end: it
\* returns unless a call raised.
C6_Terminates ==
    /\ [](TotalPops <= MaxIterations)
    /\ [](pc = "returned" => result = found_exploits)
    /\ <>(pc = "returned" \/ pc = "raised")

\* run_fuzzing returned a log with an exploit after max_iterations pops.
C6_Witness ==
    /\ pc = "returned"
    /\ TotalPops = MaxIterations
    /\ Len(result) >= 1
    /\ result = found_exploits

\* C7: when a seed is popped every child of the seed before it has been
\* executed and dealt with; an execution begins only when the children before
\* it have been dealt with; and when a pool has been captured the driver
\* calls since the last reset_state are the reset_state and the sends of that
\* child's execution only, in the executor's order.
C7_Ordering ==
    /\ pc \in {"while", "mutate"} => handled = Len(mutated_inputs)
    /\ pc = "for" => handled = child
    /\ pc \in ExecutionPcs \cup {"analyze"} =>
          /\ child \in 1..Len(mutated_inputs)
          /\ handled = child - 1
    /\ pc = "analyze" =>
          /\ callLog # << >>
          /\ callLog[1].call = "reset"
          /\ \A k \in 1..Len(callLog) :
                /\ callLog[k].exec = execN
                /\ k > 1 => callLog[k].call # "reset"
                /\ \A j \in 1..k :
                      PhaseRank(callLog[j].kind) <= PhaseRank(callLog[k].kind)

\* The pool of a second child, executed on the warm path, has been captured
\* after a re-sent intent and an intent of the child itself.
C7_Witness ==
    /\ pc = "analyze"
    /\ child = 2
    /\ ~IsColdPath
    /\ ~new_txpool_state.none
    /\ \E j, k \in 1..Len(callLog) :
          callLog[j].kind = "resend" /\ callLog[k].kind = "input"

\* C8: no exception leaves run_fuzzing.
C8_NoExceptionEscapes == pc # "raised"

\* C9: a send that failed during an execution, by a falsy answer or by an
\* exception, does not end the execution.
C9_FailedSendContinues ==
    (\E k \in 1..Len(callLog) :
        callLog[k].call = "send" /\ callLog[k].res # "ok")
    => pc # "raised"

\* C10: with a driver whose reset_state is unsupported and whose pool-clear
\* fails, no transaction is sent, no seed is admitted besides the initial
\* one, no exploit is recorded and the account counter stays as it was.
C10_CannotRecreateDiscards ==
    driver = "noclear" =>
        /\ \A k \in 1..Len(callLog) : callLog[k].call # "send"
        /\ Len(seeds) <= 1
        /\ found_exploits = << >>
        /\ current_fuzzer_account_index = 0

(***************************************************************************)
(* Properties of _execute_input_sequence.                                  *)
(***************************************************************************)
\* initial_pool_state_to_recreate of the execution under way.
ParentPool == CurrentSeed.txpool_state

\* The positions of the executor behind the loops that send the baseline and
\* the future intents.
AfterBaselinePcs == {"resend", "input", "capture"}

\* The intents of callLog's sends of a kind, in the order of the calls.
SendsOfKind(kind) ==
    SelectSeq(callLog, LAMBDA e : e.call = "send" /\ e.kind = kind)

\* C11: an execution whose parent pool is None makes none of the calls of the
\* warm path (clear_txpool_custom, the re-send of the parent's intents); one
\* whose parent pool is a pool calls clear_txpool_custom when reset_state is
\* unsupported; and one whose parent pool is the observed empty pool sends
\* no baseline and no future intent.
C11_ColdIffNone ==
    /\ ParentPool.none =>
          \A k \in 1..Len(callLog) : callLog[k].kind \notin {"clear", "resend"}
    /\ (~ParentPool.none /\ driver # "reset" /\ pc \in AfterBaselinePcs) =>
          Len(callLog) >= 2 /\ callLog[2].call = "clear"
    /\ ParentPool = PoolEmpty =>
          SendsOfKind("normal") = << >> /\ SendsOfKind("future") = << >>

\* The executor is about to capture the pool after an execution on the
\* observed empty pool, with the future flag enabled, that re-sent an intent
\* of the parent and sent one of the target input.
C11_Witness ==
    /\ pc = "capture"
    /\ ParentPool = PoolEmpty
    /\ future_flag_enabled
    /\ SendsOfKind("resend") # << >>
    /\ SendsOfKind("input") # << >>

\* No send of the execution under way has failed.
AllSendsOk ==
    \A k \in 1..Len(callLog) :
        callLog[k].call = "send" => callLog[k].res = "ok"

\* The intents the node has accepted since the reset of the execution.
SentIntents ==
    LET sends == SelectSeq(callLog, LAMBDA e : e.call = "send" /\ e.res = "ok")
    IN  [k \in 1..Len(sends) |-> sends[k].tx]

\* The intents of the parent's input at its base_input_indices_to_resend, in
\* ascending order of the indices.
ResendIntents(base) ==
    LET sorted_indices ==
            SelectSeq(SortInts(base.base_input_indices_to_resend),
                      LAMBDA idx : idx < Len(base.tx_sequence_to_execute))
    IN  [k \in 1..Len(sorted_indices) |->
            base.tx_sequence_to_execute[sorted_indices[k] + 1]]

\* The parent's pool is the pool of the node after the cold-path execution of
\* the parent's input.
ParentPoolIsColdPool ==
    \E g \in FeeSnapshots :
        ParentPool = ColdPool(CurrentSeed.fuzz_input, g, future_flag_enabled)

\* The pool of 'parent state + I.sequence': the node after a cold reset, the
\* baseline, the parent's intents to re-send and the intents of the input.
RecreationReference ==
    NodePool(ColdBaseline(current_gas_prices, future_flag_enabled)
             \o Keyed(ResendIntents(CurrentSeed.fuzz_input))
             \o Keyed(NewInput.tx_sequence_to_execute))

\* C12: when a warm-path execution in which no send failed, against the pool
\* the parent's cold-path execution left, is about to capture the pool, the
\* node's pool has the fingerprint of the pool of a cold reset followed by
\* the baseline, the parent's intents to re-send and the input's intents.
C12_RecreationDeterministic ==
    (/\ pc = "capture"
     /\ ~ParentPool.none
     /\ AllSendsOk
     /\ ParentPoolIsColdPool)
    => get_symbolic_pool_state(NodePool(SentIntents), TxPoolSize)
       = get_symbolic_pool_state(RecreationReference, TxPoolSize)

(***************************************************************************)
(* Properties of the account counter and the nonce counters.               *)
(***************************************************************************)
\* C13: no step of a campaign makes current_fuzzer_account_index smaller,
\* and only the update run_fuzzing makes after an execution changes it.
C13_CursorMonotone ==
    [][/\ current_fuzzer_account_index' >= current_fuzzer_account_index
       /\ current_fuzzer_account_index' # current_fuzzer_account_index
             => pc = "analyze"]_vars

\* The step made a sign_and_send_transfer call.
SendStep == Len(callLog') = Len(callLog) + 1 /\ callLog'[Len(callLog')].call = "send"

\* C14: on the warm path a step of the loop that re-sends the parent's
\* intents leaves the nonce counters as they are; a step of the loop over the
\* target input raises the counter of the sender by one when the send
\* succeeded and the intent's nonce is not 10000, and leaves the counters as
\* they are otherwise (no send, a failed send, a future intent).
C14_WarmNonces ==
    [][~IsColdPath =>
         /\ pc = "resend" => fuzzer_nonces' = fuzzer_nonces
         /\ pc = "input" =>
               IF /\ SendStep
                  /\ callLog'[Len(callLog')].res = "ok"
                  /\ callLog'[Len(callLog')].tx.nonce # FUTURE_NONCE
               THEN fuzzer_nonces' =
                       [fuzzer_nonces EXCEPT
                           ![callLog'[Len(callLog')].tx.sender_address] = @ + 1]
               ELSE fuzzer_nonces' = fuzzer_nonces]_vars

\* A warm-path execution has re-sent an intent of the parent, a send of the
\* target input has failed and another has succeeded: the counter of the
\* sender is one.
C14_Witness ==
    /\ pc = "capture"
    /\ ~IsColdPath
    /\ \E k \in 1..Len(callLog) : callLog[k].kind = "resend" /\ callLog[k].res = "ok"
    /\ \E j, k \in 1..Len(callLog) :
          /\ callLog[j].kind = "input" /\ callLog[j].res = "none"
          /\ callLog[k].kind = "input" /\ callLog[k].res = "ok"
          /\ callLog[k].tx.nonce # FUTURE_NONCE
          /\ fuzzer_nonces[callLog[k].tx.sender_address] = 1

\* The number of sends of a kind that succeeded, of all senders or of one.
OkSends(kind) ==
    Cardinality({k \in 1..Len(callLog) :
        callLog[k].call = "send" /\ callLog[k].kind = kind /\ callLog[k].res = "ok"})
OkSendsFrom(kind, sender) ==
    Cardinality({k \in 1..Len(callLog) :
        /\ callLog[k].call = "send" /\ callLog[k].kind = kind
        /\ callLog[k].res = "ok" /\ callLog[k].tx.sender_address = sender})

\* C15: once the cold-path setup with the future flag enabled is over, the
\* account counter is the number of future sends that succeeded, at most
\* future_slots; every future intent sent has nonce 10000, value 2 and type
\* 2; and the nonce counter of every account is the initial nonce plus the
\* number of its baseline sends that succeeded.
C15_ColdFutureSetup ==
    (IsColdPath /\ future_flag_enabled /\ pc \in {"input", "capture"}) =>
        /\ current_fuzzer_account_index = OkSends("future")
        /\ current_fuzzer_account_index <= DEFAULT_FUTURE_SLOTS
        /\ \A k \in 1..Len(callLog) :
              callLog[k].kind = "future" =>
                 /\ callLog[k].tx.nonce = 10000
                 /\ callLog[k].tx.value = 2
                 /\ callLog[k].tx.tx_type = 2
        /\ \A a \in Accounts :
              fuzzer_nonces[a] = DEFAULT_INITIAL_NONCE + OkSendsFrom("normal", a)

\* The cold-path setup is over: a baseline send and the future send have
\* succeeded, another baseline send has failed.
C15_Witness ==
    /\ IsColdPath /\ future_flag_enabled /\ pc = "input" /\ loop_i = 0
    /\ OkSends("future") = 1
    /\ OkSends("normal") = 1
    /\ \E k \in 1..Len(callLog) : callLog[k].kind = "normal" /\ callLog[k].res = "none"

\* C16: when a warm-path execution in which no send failed has left the
\* loops that re-send the baseline and the future intents, it has sent as
\* many baseline intents as the parent's fingerprint has 'N' and as many
\* future intents as it has 'F'.
C16_ResendCounts ==
    (~IsColdPath /\ pc \in AfterBaselinePcs /\ AllSendsOk) =>
        /\ OkSends("normal") = Count(SymbolicBaseState, "N")
        /\ OkSends("future") = Count(SymbolicBaseState, "F")

\* C17: of two intents of the parent re-sent in an execution the one sent
\* first has the nonce that is not greater, and no intent of the parent is
\* re-sent after an intent of the target input was sent.
C17_ResendOrder ==
    \A j, k \in 1..Len(callLog) :
        (j < k /\ callLog[k].kind = "resend") =>
            /\ callLog[j].kind # "input"
            /\ callLog[j].kind = "resend" =>
                  callLog[j].tx.nonce <= callLog[k].tx.nonce

(***************************************************************************)
(* Properties of the exploit log.                                          *)
(***************************************************************************)
\* C18: the step in which run_fuzzing deals with a pool an execution returned
\* appends one entry, for that child and that pool, to found_exploits when
\* the detector flags the pool and leaves found_exploits as it is otherwise;
\* in both cases the child is offered to add_seed and the loop over the
\* children goes on; no other step changes found_exploits.
C18_ExploitLog ==
    [][IF pc = "analyze" /\ ~new_txpool_state.none
       THEN /\ IF new_txpool_state \in FlaggedPools
               THEN /\ Len(found_exploits') = Len(found_exploits) + 1
                    /\ SubSeq(found_exploits', 1, Len(found_exploits)) = found_exploits
                    /\ found_exploits'[Len(found_exploits')].input = NewInput
                    /\ found_exploits'[Len(found_exploits')].raw_txpool_state
                          = new_txpool_state
               ELSE found_exploits' = found_exploits
            /\ lastOp'.op = "admit"
            /\ lastOp'.seed.fuzz_input = NewInput
            /\ lastOp'.seed.txpool_state = new_txpool_state
            /\ pc' = "for"
       ELSE found_exploits' = found_exploits]_vars

\* The detector has fired on the pools of two children, one after the other,
\* and the second child has been offered to add_seed.
C18_Witness ==
    /\ pc = "for"
    /\ Len(found_exploits) = 2
    /\ lastOp.op = "admit"
    /\ lastOp.seed.txpool_state \in FlaggedPools
    /\ found_exploits[2].input = lastOp.seed.fuzz_input

(***************************************************************************)
(* SpecAbs: get_symbolic_pool_state and get_txpool_energy called on a raw  *)
(* pool (state.py).                                                        *)
(***************************************************************************)
\* The largest number of pending senders of the raw pools SpecAbs draws.
MaxSenders == 2

\* A valid blob record (one blob hash), a record whose gasPrice is not hex
\* and a record whose value is not hex.
BlobTx == [PoolTx(0, 3, 5, 1) EXCEPT !.blobs = 1]
MalformedTx == [PoolTx(0, 0, 5, 1) EXCEPT !.gasPrice = Malformed]
MalformedValueTx == [PoolTx(0, 0, 5, 1) EXCEPT !.value = Malformed]
\* A valid blob record whose maxFeePerBlobGas is between 10 and 1000.
BlobTxInRange == [BlobTx EXCEPT !.maxFeePerBlobGas = 100]

\* A parent, a replacement and a child whose value is the threshold.
ParentTx == PoolTx(0, 0, 5, 1)
ReplacementTx == PoolTx(0, 2, STATE_PARENT_REPLACEMENT_PRICE_THRESHOLD, 1)
ChildTx == PoolTx(1, 0, 5, STATE_CHILD_VALUE_THRESHOLD)

\* The first records of the pending senders: a normal one, a parent, a
\* replacement, two valid blobs, a blob without hashes, one with a malformed
\* price, one with a malformed value.
HeadRecords ==
    {PoolTx(0, 2, STATE_NORMAL_TX_PRICE_INDICATOR, 1), ParentTx, ReplacementTx,
     BlobTx, BlobTxInRange, PoolTx(0, 3, 5, 1), MalformedTx, MalformedValueTx}

\* The second records: a child whose value is the threshold, one that moves
\* more, a blob record and one with a malformed value.
ChildRecords ==
    {ChildTx, PoolTx(1, 0, 5, STATE_CHILD_VALUE_THRESHOLD + 1),
     [BlobTx EXCEPT !.nonce = 1], [MalformedValueTx EXCEPT !.nonce = 1]}

\* The records of one pending sender: any head alone or with a child, a
\* parent or a replacement with any second record.
Chains ==
    {<<h>> : h \in HeadRecords}
    \cup {<<h, ChildTx>> : h \in HeadRecords}
    \cup {<<h, c>> : <<h, c>> \in {ParentTx, ReplacementTx} \X ChildRecords}

\* txpool_content['pending']: up to MaxSenders senders, the k-th enumerated
\* being sender k.
PendingDicts ==
    UNION {{[k \in 1..n |-> [sender |-> k, txs |-> chains[k]]] :
               chains \in [1..n -> Chains]} : n \in 0..MaxSenders}

\* txpool_content['queued']: nothing, a future record, a queued record of
\* another nonce, a type-3 record at the future nonce, a record whose type
\* is not hex.
QueuedDicts ==
    {<< >>,
     <<[sender |-> 0, txs |-> <<PoolTx(FUTURE_NONCE, 2, 3, 2)>>]>>,
     <<[sender |-> 0, txs |-> <<PoolTx(5, 0, 5, 1)>>]>>,
     <<[sender |-> 0, txs |-> <<PoolTx(FUTURE_NONCE, 3, 3, 2)>>]>>,
     <<[sender |-> 0, txs |-> <<[PoolTx(5, 0, 5, 1) EXCEPT !.type = Malformed]>>]>>}

\* Three senders of one normal record each and a sender whose only record
\* has nonce 0, price 12500 and value 0.
PoolNNNR ==
    [none |-> FALSE,
     pending |-> [k \in 1..4 |->
                    [sender |-> k,
                     txs |-> IF k < 4
                             THEN <<PoolTx(0, 2, STATE_NORMAL_TX_PRICE_INDICATOR, 1)>>
                             ELSE <<PoolTx(0, 2, 12500, 0)>>]],
     queued |-> << >>]

\* The raw pools get_symbolic_pool_state and get_txpool_energy are called on.
AbsPools ==
    {[none |-> FALSE, pending |-> p, queued |-> q] :
        <<p, q>> \in PendingDicts \X QueuedDicts}
    \cup {PoolNNNR}

\* A raw pool is handed to get_symbolic_pool_state.
AbsInit ==
    /\ DbConstructed
    /\ EngineConstructed("idle", "reset", FALSE)
    /\ txpool_content \in AbsPools
    /\ symbolic_state = NoneStr
    /\ pool_energy = NoEnergy
    /\ parsed_input = EmptyInput
    /\ input_symbol = NoneStr

\* What follows a call that raised ValueError instead of returning.
ValueErrorRaised == <<"<ValueError>">>

\* get_symbolic_pool_state(txpool_content, txpool_size_config) returns, or
\* raises.
Abstract ==
    /\ ~txpool_content.none
    /\ symbolic_state = NoneStr
    /\ symbolic_state' =
           IF SymbolicRaises(txpool_content) THEN ValueErrorRaised
           ELSE get_symbolic_pool_state(txpool_content, TxPoolSize)
    /\ UNCHANGED <<dbVars, engineVars, txpool_content, pool_energy, parsed_input,
                   input_symbol>>

\* get_txpool_energy(txpool_content) returns.
Energy ==
    /\ ~txpool_content.none
    /\ pool_energy = NoEnergy
    /\ pool_energy' = get_txpool_energy(txpool_content)
    /\ UNCHANGED <<dbVars, engineVars, txpool_content, symbolic_state,
                   parsed_input, input_symbol>>

AbsNext == Abstract \/ Energy

\* The call has returned a fingerprint.
Returned == symbolic_state \notin {NoneStr, ValueErrorRaised}

SpecAbs == AbsInit /\ [][AbsNext]_vars

\* The records of a raw pool that take a slot of the pool: the future
\* records and the pending records.
total_records(pool) ==
    FutureTxCount(pool) + TxCountOf(NonEmptySenders(pool.pending))

Symbols == {"E", "F", "N", "P", "R", "C", "O", "B", "I"}

\* C19: the fingerprint of a raw pool is a string over E F N P R C O B I; it
\* is txpool_size long when the pool holds at most txpool_size records and as
\* long as the number of records otherwise, and it has
\* max(0, txpool_size - records) symbols E; pools with blob heads and with
\* malformed heads included.
C19_FingerprintLength ==
    Returned =>
        /\ \A k \in 1..Len(symbolic_state) : symbolic_state[k] \in Symbols
        /\ Len(symbolic_state) =
               IF total_records(txpool_content) <= TxPoolSize
               THEN TxPoolSize ELSE total_records(txpool_content)
        /\ Count(symbolic_state, "E") =
               IF TxPoolSize - total_records(txpool_content) > 0
               THEN TxPoolSize - total_records(txpool_content) ELSE 0

\* The orders in which n senders can be enumerated.
Enumerations(n) ==
    {f \in [1..n -> 1..n] : \A j, k \in 1..n : j # k => f[j] # f[k]}

\* The raw pool with its pending senders enumerated in the order f and
\* given other addresses.
Reenumerated(pool, f) ==
    [pool EXCEPT !.pending =
        [k \in 1..Len(pool.pending) |->
            [sender |-> 100 + pool.pending[f[k]].sender,
             txs |-> pool.pending[f[k]].txs]]]

\* The non-normal senders of the pool in the order of their blocks, and the
\* part of the fingerprint that holds their blocks.
NonNormalSenders(pool) == SortedNonNormal(NonEmptySenders(pool.pending))
NonNormalPart(str, pool) ==
    SubSeq(str, Len(str) - TxCountOf(NonNormalSenders(pool)) + 1, Len(str))

\* The place of a symbol in the form E* F* B* I* N* (non-normal blocks).
FormRank(sym) ==
    CASE sym = "E" -> 0 [] sym = "F" -> 1 [] sym = "B" -> 2
      [] sym = "I" -> 3 [] sym = "N" -> 4 [] OTHER -> 5

\* The non-normal blocks of the pool, one after the other in the order f of
\* its non-normal senders.
BlocksInOrder(pool, f) ==
    LET nn == SelectSeq(NonEmptySenders(pool.pending), IsNonNormalSender)
    IN  Concat([k \in 1..Len(nn) |-> SenderSymbols(nn[f[k]])])

\* The order f of the non-normal senders of the pool ascends in head price.
AscendingHeads(pool, f) ==
    LET nn == SelectSeq(NonEmptySenders(pool.pending), IsNonNormalSender)
    IN  \A j, k \in 1..Len(nn) :
            j < k => TxPrice(FirstTx(nn[f[j]])) <= TxPrice(FirstTx(nn[f[k]]))

\* str is E* F* B* I* N* followed by the non-normal blocks of the pool in
\* ascending head price.
CanonicalForm(str, pool) ==
    LET heads == Len(str) - Len(NonNormalPart(str, pool))
        nn == SelectSeq(NonEmptySenders(pool.pending), IsNonNormalSender)
    IN  /\ \A k \in 1..heads : FormRank(str[k]) < 5
        /\ \A j, k \in 1..heads : j < k => FormRank(str[j]) <= FormRank(str[k])
        /\ \E f \in Enumerations(Len(nn)) :
              /\ AscendingHeads(pool, f)
              /\ NonNormalPart(str, pool) = BlocksInOrder(pool, f)

\* C20: the fingerprint is E* F* B* I* N* followed by the non-normal blocks in
\* ascending head price, and a raw pool that differs only in the addresses of
\* the senders and in the order in which they are enumerated has the same
\* fingerprint, chains of equal head price included.
C20_Canonical ==
    Returned =>
        /\ CanonicalForm(symbolic_state, txpool_content)
        /\ \A f \in Enumerations(Len(txpool_content.pending)) :
              get_symbolic_pool_state(Reenumerated(txpool_content, f),
                                      TxPoolSize) = symbolic_state

\* The form alone.
C20_FormOnly ==
    Returned => CanonicalForm(symbolic_state, txpool_content)

\* Every field of every record of the sender is well-formed.
WellFormedChain(e) ==
    \A k \in 1..Len(e.txs) : ~DetailMalformed(e.txs[k])

\* The symbols the rule of P, R, C and O gives the records of a sender.
RuleSymbols(e) ==
    LET txs == SortByNonce(e.txs)
        high == TxPrice(txs[1]) >= STATE_PARENT_REPLACEMENT_PRICE_THRESHOLD
    IN  [i \in 1..Len(txs) |->
            IF i = 1 THEN (IF high THEN "R" ELSE "P")
            ELSE IF high \/ HexOrZero(txs[i].value) > STATE_CHILD_VALUE_THRESHOLD
                 THEN "O" ELSE "C"]

\* The same, a record of type 3 being 'B' with blob hashes and 'I' without.
RuleSymbolsWithBlobs(e) ==
    LET txs == SortByNonce(e.txs)
    IN  [i \in 1..Len(txs) |->
            IF TxType(txs[i]) = 3
            THEN (IF HasBlobHashes(txs[i]) THEN "B" ELSE "I")
            ELSE RuleSymbols(e)[i]]

MalformedHeads(pool) == SelectSeq(NonEmptySenders(pool.pending), IsSkipped)

\* The block of the k-th non-normal sender in the fingerprint.
BlockOf(str, pool, k) ==
    LET nn == NonNormalSenders(pool)
        before == TxCountOf(SubSeq(nn, 1, k - 1))
    IN  SubSeq(NonNormalPart(str, pool),
               before + 1, before + Len(nn[k].txs))

\* C22: the abstraction does not fail on malformed records: every call
\* returns a fingerprint; the records of a pending sender whose first record
\* has a malformed field appear in it as those of a non-normal chain; a
\* later record with a malformed field is symbolized as 'O'.
C22_MalformedRecords ==
    symbolic_state # NoneStr =>
        /\ symbolic_state # ValueErrorRaised
        /\ Len(symbolic_state) - Count(symbolic_state, "E")
               - Count(symbolic_state, "F") - Count(symbolic_state, "N")
               - Count(symbolic_state, "B") - Count(symbolic_state, "I")
           >= TxCountOf(MalformedHeads(txpool_content))
        /\ \A k \in 1..Len(NonNormalSenders(txpool_content)) :
              \A i \in 2..Len(NonNormalSenders(txpool_content)[k].txs) :
                  DetailMalformed(SortByNonce(
                      NonNormalSenders(txpool_content)[k].txs)[i])
                  => BlockOf(symbolic_state, txpool_content, k)[i] = "O"

\* Only the first part: every call returns.
C22_NeverRaises == symbolic_state # ValueErrorRaised

\* Only the second part: the records of senders with malformed heads appear.
C22_HeadsAppear ==
    Returned =>
        Len(symbolic_state) - Count(symbolic_state, "E")
            - Count(symbolic_state, "F") - Count(symbolic_state, "N")
            - Count(symbolic_state, "B") - Count(symbolic_state, "I")
        >= TxCountOf(MalformedHeads(txpool_content))

\* Only the third part: a later malformed record is 'O'.
C22_LaterIsO ==
    Returned =>
        \A k \in 1..Len(NonNormalSenders(txpool_content)) :
            \A i \in 2..Len(NonNormalSenders(txpool_content)[k].txs) :
                DetailMalformed(SortByNonce(
                    NonNormalSenders(txpool_content)[k].txs)[i])
                => BlockOf(symbolic_state, txpool_content, k)[i] = "O"

\* C23: after a cold-path execution of an input without intents, the future
\* flag disabled, in which txpool_size baseline intents were sent
\* successfully and are all pending, the captured pool has the fingerprint
\* of txpool_size 'N' and the energy 3 * txpool_size, whatever fee snapshot
\* the driver returned.
C23_BaselineFill ==
    (/\ pc = "capture" /\ IsColdPath /\ ~future_flag_enabled
     /\ mutated_inputs[child] = EmptyInput
     /\ AllSendsOk /\ OkSends("normal") = TxPoolSize)
    => /\ get_symbolic_pool_state(NodePool(SentIntents), TxPoolSize)
              = Repeat("N", TxPoolSize)
       /\ get_txpool_energy(NodePool(SentIntents)) = 3 * TxPoolSize

\* The same for the fee snapshot whose maxFeePerGas is the normal price.
C23_AtNormalPrice ==
    (/\ pc = "capture" /\ IsColdPath /\ ~future_flag_enabled
     /\ mutated_inputs[child] = EmptyInput
     /\ AllSendsOk /\ OkSends("normal") = TxPoolSize
     /\ \A k \in 1..Len(SentIntents) :
            SentIntents[k].price = STATE_NORMAL_TX_PRICE_INDICATOR)
    => /\ get_symbolic_pool_state(NodePool(SentIntents), TxPoolSize)
              = Repeat("N", TxPoolSize)
       /\ get_txpool_energy(NodePool(SentIntents)) = 3 * TxPoolSize

\* The head of the sender is priced at the normal price.
NormalHead(e) ==
    /\ ~PriceMalformed(FirstTx(e))
    /\ TxPrice(FirstTx(e)) = STATE_NORMAL_TX_PRICE_INDICATOR

\* The head of the sender is a blob record.
BlobHead(e) == FirstTx(e).type = 3

\* The record moves at most the child value threshold.
LowValue(tx) ==
    tx.value # Malformed /\ HexOrZero(tx.value) <= STATE_CHILD_VALUE_THRESHOLD

\* 3 for every record of a normal sender, 1 for every record of at most the
\* threshold value of a non-normal sender, and 4 + i for the i-th non-normal
\* sender, from 0.
EnergyByRule(pool) ==
    LET entries == NonEmptySenders(pool.pending)
        normal == SelectSeq(entries, NormalHead)
        others == SelectSeq(entries, LAMBDA e : ~NormalHead(e))
    IN  3 * TxCountOf(normal)
        + SumSeq([k \in 1..Len(others) |->
              Cardinality({j \in 1..Len(others[k].txs) :
                               LowValue(others[k].txs[j])})])
        + SumSeq([k \in 1..Len(others) |-> 4 + (k - 1)])

\* C24: the energy of a raw pool without blob heads is 3 for every record of
\* a sender whose head price is the normal price, plus 1 for every record
\* (head included) of value at most the child value threshold in the chains
\* of the other senders, plus 4 + i for i from 0 to k - 1, k the number of
\* those senders; the energy of an empty pool is 0 and no energy is negative.
C24_EnergyRule ==
    pool_energy # NoEnergy =>
        /\ pool_energy >= 0
        /\ txpool_content.pending = << >> => pool_energy = 0
        /\ (\A k \in 1..Len(txpool_content.pending) :
                ~BlobHead(txpool_content.pending[k]))
           => pool_energy = EnergyByRule(txpool_content)

\* The energy of a pool of two non-normal senders, one with a malformed
\* head, and a record of high value has been computed.
C24_Witness ==
    /\ pool_energy # NoEnergy
    /\ Len(txpool_content.pending) = 2
    /\ \A k \in 1..2 : /\ ~BlobHead(txpool_content.pending[k])
                       /\ ~NormalHead(txpool_content.pending[k])
    /\ txpool_content.pending[1].txs[1] = MalformedTx
    /\ Len(txpool_content.pending[2].txs) = 2
    /\ ~LowValue(txpool_content.pending[2].txs[2])
    /\ pool_energy = 1 + 1 + 4 + 5

\* What a sender with a blob head adds to the energy by the rule: 2 for
\* every record, and 5 for a maxFeePerBlobGas below 10 or above 1000, when
\* the head has blob hashes; 15 for every record when it has none.
BlobEnergyByRule(e) ==
    IF HasBlobHashes(FirstTx(e))
    THEN 2 * Len(e.txs)
         + (IF \/ HexOrZero(FirstTx(e).maxFeePerBlobGas) < 10
               \/ HexOrZero(FirstTx(e).maxFeePerBlobGas) > 1000
            THEN 5 ELSE 0)
    ELSE 15 * Len(e.txs)

\* C25: a pending sender whose head is a valid blob record adds 2 for each of
\* its records to the energy, and 5 more if its maxFeePerBlobGas is below 10
\* or above 1000; one whose head is a blob record without hashes adds 15 for
\* each of its records: the energy of a pool of such senders is the sum.
C25_BlobEnergy ==
    (/\ pool_energy # NoEnergy
     /\ \A k \in 1..Len(txpool_content.pending) :
            BlobHead(txpool_content.pending[k]))
    => pool_energy =
           SumSeq([k \in 1..Len(txpool_content.pending) |->
                      BlobEnergyByRule(txpool_content.pending[k])])

\* The same for the heads with blob hashes only.
C25_ValidBlobsOnly ==
    (/\ pool_energy # NoEnergy
     /\ \A k \in 1..Len(txpool_content.pending) :
            /\ BlobHead(txpool_content.pending[k])
            /\ HasBlobHashes(FirstTx(txpool_content.pending[k])))
    => pool_energy =
           SumSeq([k \in 1..Len(txpool_content.pending) |->
                      BlobEnergyByRule(txpool_content.pending[k])])

\* C26 as stated: the pool of three single-record normal senders and one
\* sender whose only record has nonce 0, price 12500 and value 0 has the
\* fingerprint "NNNR" and the energy 17.
C26_SingleReplacement_Stated ==
    (txpool_content = PoolNNNR /\ Returned /\ pool_energy # NoEnergy)
    => /\ symbolic_state = <<"N", "N", "N", "R">>
       /\ pool_energy = 17

\* C26: that pool has the fingerprint "NNNR" and the energy 14: 3 for each
\* of the three normal records, 1 for the record of the replacement, whose
\* value is not above the threshold, and 4 for the first non-normal sender.
C26_SingleReplacement ==
    (txpool_content = PoolNNNR /\ Returned /\ pool_energy # NoEnergy)
    => /\ symbolic_state = <<"N", "N", "N", "R">>
       /\ pool_energy = 3 * 3 + 1 + 4

\* Both functions have returned for that pool.
C26_Witness ==
    txpool_content = PoolNNNR /\ Returned /\ pool_energy # NoEnergy

(***************************************************************************)
(* The mutation strategies (mutation.py, mutation_strategies/).            *)
(***************************************************************************)
DEFAULT_GAS_LIMIT == 21000
\* DefaultTxPoolMutation.price_ladder_step_length
price_ladder_step_length == 1
\* The floor of the price of an override, a child and a replacement.
HIGH_PRICE_FLOOR == 12000
\* The value of a low-value child.
CHILD_VALUE == 10000
\* 10**15 in mutation.py, the funds an override moves all but the fee of;
\* here a number the integers of the model hold: only the sign of a value
\* and its place against the child value threshold are ever read.
OVERRIDE_FUNDS == 2000000000

\* An intent of type 3: FuzzTx(..., tx_type=3, max_fee_per_blob_gas=...,
\* blob_versioned_hashes=...), hashes being the number of hashes.
BlobFuzzTx(tx, max_fee_per_blob_gas, hashes) ==
    [tx EXCEPT !.max_fee_per_blob_gas = max_fee_per_blob_gas,
               !.blob_versioned_hashes = hashes]

\* max(a, b)
Max(a, b) == IF a >= b THEN a ELSE b

\* list.index(x), from 0; -1 where Python raises ValueError.
IndexOf(list, x) ==
    IF \E k \in 1..Len(list) : list[k] = x
    THEN (CHOOSE k \in 1..Len(list) :
              list[k] = x /\ \A j \in 1..(k - 1) : list[j] # x) - 1
    ELSE -1

\* The list after list.remove(x), x being in it.
RemoveFirst(list, x) ==
    [k \in 1..(Len(list) - 1) |->
        IF k <= IndexOf(list, x) THEN list[k] ELSE list[k + 1]]

\* account_manager.get_fuzzer_nonce(address) or 0
NonceOrZero(nonces, address) ==
    IF address \in DOMAIN nonces THEN nonces[address] ELSE 0

\* AccountManager.get_index_by_address
get_index_by_address(address) ==
    IF address \in Accounts THEN address ELSE NoneAddr

\* DefaultTxPoolMutation._get_safe_account_address
get_safe_account_address(index) ==
    IF get_account_by_index(index) = NoneAddr THEN get_account_by_index(0)
    ELSE get_account_by_index(index)

\* first_tx_price of DefaultTxPoolMutation.mutate: the gasPrice field of the
\* first record, a malformed one counting as not normal.
MutationFirstPrice(e) ==
    IF FirstTx(e).gasPrice = Malformed
    THEN STATE_NORMAL_TX_PRICE_INDICATOR + 1
    ELSE HexOrZero(FirstTx(e).gasPrice)

\* The pending senders behind parent_in_pool_senders, in dict order.
ParentsInPool(pool) ==
    IF pool.none THEN << >>
    ELSE SelectSeq(NonEmptySenders(pool.pending),
             LAMBDA e : MutationFirstPrice(e) # STATE_NORMAL_TX_PRICE_INDICATOR)

\* The (sender, nonce, value) of the records of a dict whose value parses.
DetailsOf(entries) ==
    UNION {{<<entries[k].sender, entries[k].txs[j].nonce,
              HexOrZero(entries[k].txs[j].value)>> :
               j \in {i \in 1..Len(entries[k].txs) :
                         entries[k].txs[i].value # Malformed}} :
           k \in 1..Len(entries)}

\* The queued dict without the records of the future nonce.
WithoutFutures(entries) ==
    [k \in 1..Len(entries) |->
        [sender |-> entries[k].sender,
         txs |-> SelectSeq(entries[k].txs,
                           LAMBDA tx : tx.nonce # FUTURE_NONCE)]]

\* all_tx_in_pool_details of DefaultTxPoolMutation.mutate
DefaultPoolDetails(pool) ==
    IF pool.none THEN {}
    ELSE DetailsOf(pool.pending) \cup DetailsOf(WithoutFutures(pool.queued))

\* The (sender, nonce, value, type) of the records of a dict whose value and
\* type parse.
TypedDetailsOf(entries) ==
    UNION {{<<entries[k].sender, entries[k].txs[j].nonce,
              HexOrZero(entries[k].txs[j].value),
              HexOrZero(entries[k].txs[j].type)>> :
               j \in {i \in 1..Len(entries[k].txs) :
                         /\ entries[k].txs[i].value # Malformed
                         /\ entries[k].txs[i].type # Malformed}} :
           k \in 1..Len(entries)}

\* all_tx_in_pool_details of BlobTxMutationStrategy.mutate
BlobPoolDetails(pool) ==
    IF pool.none THEN {}
    ELSE TypedDetailsOf(pool.pending) \cup TypedDetailsOf(pool.queued)

\* base_input_tx_in_pool_indices of DefaultTxPoolMutation.mutate
DefaultIndicesInPool(base_input, pool) ==
    LET sequence == base_input.tx_sequence_to_execute
    IN  SelectSeq([i \in 1..Len(sequence) |-> i - 1],
            LAMBDA i : <<sequence[i + 1].sender_address, sequence[i + 1].nonce,
                         sequence[i + 1].value>> \in DefaultPoolDetails(pool))

\* base_input_tx_in_pool_indices of BlobTxMutationStrategy.mutate
BlobIndicesInPool(base_input, pool) ==
    LET sequence == base_input.tx_sequence_to_execute
    IN  SelectSeq([i \in 1..Len(sequence) |-> i - 1],
            LAMBDA i : <<sequence[i + 1].sender_address, sequence[i + 1].nonce,
                         sequence[i + 1].value, sequence[i + 1].tx_type>>
                       \in BlobPoolDetails(pool))

\* What get_current_gas_prices returns to a strategy: the legacy price, the
\* fee cap, the priority fee and the blob fee cap of the node.
MutationGasPrices ==
    {[gasPrice |-> 3, maxFeePerGas |-> 3, maxPriorityFeePerGas |-> 1,
      maxFeePerBlobGas |-> 0],
     [gasPrice |-> 100, maxFeePerGas |-> 100, maxPriorityFeePerGas |-> 1,
      maxFeePerBlobGas |-> 4],
     [gasPrice |-> 13000, maxFeePerGas |-> 13000, maxPriorityFeePerGas |-> 1,
      maxFeePerBlobGas |-> 4]}

\* value=DEFAULT_GAS_LIMIT * (12000 - price)
HeuristicValue(price) == DEFAULT_GAS_LIMIT * (12000 - price)

\* An input: the base sequence (a deep copy) with one intent appended.
Appended(base_input, tx, indices) ==
    FuzzInput(Append(base_input.tx_sequence_to_execute, tx), indices)

\* Mutation 1, for one parent in the pool: an override, then a child.
ChildCandidates(base_input, e, gas, indices) ==
    LET acc_idx == get_index_by_address(e.sender)
        next_nonce == Len(e.txs)
        tx_price == Max(gas.maxFeePerGas, HIGH_PRICE_FLOOR)
        new_tx_o == FuzzTx(acc_idx, e.sender, next_nonce, 2, tx_price,
                           gas.maxPriorityFeePerGas,
                           OVERRIDE_FUNDS - DEFAULT_GAS_LIMIT * tx_price - 100)
        new_tx_c == FuzzTx(acc_idx, e.sender, next_nonce, 2, tx_price,
                           gas.maxPriorityFeePerGas, CHILD_VALUE)
    IN  IF acc_idx = NoneAddr THEN << >>
        ELSE <<Appended(base_input, new_tx_o, indices),
               Appended(base_input, new_tx_c, indices)>>

\* Mutation 2, for one parent in the pool: a replacement.
ReplacementCandidates(base_input, e, gas, indices) ==
    LET acc_idx == get_index_by_address(e.sender)
        tx_price == Max(gas.maxFeePerGas, HIGH_PRICE_FLOOR)
        new_tx_r == FuzzTx(acc_idx, e.sender, 0, 2, tx_price,
                           gas.maxPriorityFeePerGas,
                           OVERRIDE_FUNDS - DEFAULT_GAS_LIMIT * tx_price - 100)
    IN  IF acc_idx = NoneAddr THEN << >>
        ELSE <<Appended(base_input, new_tx_r, indices)>>

\* Mutation 3 without its condition: a new parent in any case.
NewParentCandidates_Always(base_input, parents, index, gas, nonces, indices) ==
    LET sender_addr_p == get_safe_account_address(index + 1)
        new_parent_tx == FuzzTx(index + 1, sender_addr_p,
                                NonceOrZero(nonces, sender_addr_p), 0,
                                gas.gasPrice, NoneFee,
                                HeuristicValue(gas.gasPrice))
    IN  <<Appended(base_input, new_parent_tx, indices)>>

\* Mutation 3: a new parent, when no parent is in the pool.
NewParentCandidates(base_input, parents, index, gas, nonces, indices) ==
    LET sender_addr_p == get_safe_account_address(index + 1)
        new_parent_tx == FuzzTx(index + 1, sender_addr_p,
                                NonceOrZero(nonces, sender_addr_p), 0,
                                gas.gasPrice, NoneFee,
                                HeuristicValue(gas.gasPrice))
    IN  IF parents # << >> THEN << >>
        ELSE <<Appended(base_input, new_parent_tx, indices)>>

\* base_input_parent_prices: the prices of the intents of nonce 0 of the
\* base input, sorted.
BaseParentPrices(base_input) ==
    LET parent_txs == SelectSeq(base_input.tx_sequence_to_execute,
                                LAMBDA tx : tx.nonce = 0)
    IN  SortInts([k \in 1..Len(parent_txs) |-> parent_txs[k].price])

\* price_ladder_options: n prices from the floor up.
LadderOptions(gas, n) ==
    [j \in 1..n |->
        Max(gas.maxFeePerGas, STATE_NORMAL_TX_PRICE_INDICATOR + 1)
        + (j - 1) * price_ladder_step_length]

\* The sequence with its intents of nonce 0 re-priced from the options left.
Repriced(sequence, prices, options, gas) ==
    [k \in 1..Len(sequence) |->
        IF /\ sequence[k].nonce = 0
           /\ IndexOf(prices, sequence[k].price) >= 0
           /\ IndexOf(prices, sequence[k].price) < Len(options)
        THEN [sequence[k] EXCEPT
                 !.price = options[IndexOf(prices, sequence[k].price) + 1],
                 !.tx_type = 2,
                 !.max_priority_fee_per_gas = gas.maxPriorityFeePerGas]
        ELSE sequence[k]]

\* Mutation 4, for one parent in the pool: a parent of a new account at the
\* place of the sender's price in the ladder, the base intents re-priced.
LadderCandidates(base_input, e, index, gas, nonces, indices) ==
    LET prices == BaseParentPrices(base_input)
        cur_tx_index == IndexOf(prices, MutationFirstPrice(e))
        options == LadderOptions(gas, Len(prices) + 1)
        sender_addr_ladder == get_safe_account_address(index + 1)
        new_price == options[cur_tx_index + 1]
        new_ladder_parent_tx ==
            FuzzTx(index + 1, sender_addr_ladder,
                   NonceOrZero(nonces, sender_addr_ladder), 2, new_price,
                   gas.maxPriorityFeePerGas, HeuristicValue(new_price))
    IN  IF cur_tx_index = -1 THEN << >>
        ELSE <<FuzzInput(
                 Append(Repriced(base_input.tx_sequence_to_execute, prices,
                                 RemoveFirst(options, new_price), gas),
                        new_ladder_parent_tx),
                 indices)>>

\* A mutant of MaxLadderCandidates: the new parent is priced at the place of
\* the highest price, not one step above it.
MaxLadderCandidates_SameStep(base_input, index, gas, nonces, indices) ==
    LET prices == BaseParentPrices(base_input)
        max_price_idx == IndexOf(prices, prices[Len(prices)])
        new_price == Max(gas.maxFeePerGas, STATE_NORMAL_TX_PRICE_INDICATOR + 1)
                     + max_price_idx * price_ladder_step_length
        sender_addr_max_ladder == get_safe_account_address(index + 1)
        new_max_ladder_parent_tx ==
            FuzzTx(index + 1, sender_addr_max_ladder,
                   NonceOrZero(nonces, sender_addr_max_ladder), 2, new_price,
                   gas.maxPriorityFeePerGas, HeuristicValue(new_price))
        options == LadderOptions(gas, Len(prices) + 2)
    IN  IF prices = << >> THEN << >>
        ELSE <<FuzzInput(
                 Append(Repriced(base_input.tx_sequence_to_execute, prices,
                                 IF IndexOf(options, new_price) >= 0
                                 THEN RemoveFirst(options, new_price)
                                 ELSE options, gas),
                        new_max_ladder_parent_tx),
                 indices)>>

\* Mutation 5: a parent of a new account one step above the highest price of
\* the ladder, the base intents re-priced.
MaxLadderCandidates(base_input, index, gas, nonces, indices) ==
    LET prices == BaseParentPrices(base_input)
        max_price_idx == IndexOf(prices, prices[Len(prices)])
        new_price == Max(gas.maxFeePerGas, STATE_NORMAL_TX_PRICE_INDICATOR + 1)
                     + (max_price_idx + 1) * price_ladder_step_length
        sender_addr_max_ladder == get_safe_account_address(index + 1)
        new_max_ladder_parent_tx ==
            FuzzTx(index + 1, sender_addr_max_ladder,
                   NonceOrZero(nonces, sender_addr_max_ladder), 2, new_price,
                   gas.maxPriorityFeePerGas, HeuristicValue(new_price))
        options == LadderOptions(gas, Len(prices) + 2)
    IN  IF prices = << >> THEN << >>
        ELSE <<FuzzInput(
                 Append(Repriced(base_input.tx_sequence_to_execute, prices,
                                 IF IndexOf(options, new_price) >= 0
                                 THEN RemoveFirst(options, new_price)
                                 ELSE options, gas),
                        new_max_ladder_parent_tx),
                 indices)>>

\* The last mutation: a single new parent, when no parent is in the pool and
\* the base input has no intent of nonce 0.
FallbackCandidates(base_input, parents, index, gas, nonces, indices) ==
    LET address == get_account_by_index(index + 1)
        new_parent_tx == FuzzTx(index + 1, address,
                                NonceOrZero(nonces, address), 0,
                                gas.gasPrice, NoneFee,
                                HeuristicValue(gas.gasPrice))
    IN  IF parents = << >> /\ BaseParentPrices(base_input) = << >>
        THEN <<FuzzInput(<<new_parent_tx>>, indices)>>
        ELSE << >>

\* DefaultTxPoolMutation.mutate(base_input, current_txpool_state,
\* current_fuzzer_account_index), gas being what get_current_gas_prices
\* returned and nonces the fuzzer nonces.
DefaultMutate(base_input, pool, index, gas, nonces) ==
    LET parents == ParentsInPool(pool)
        indices == DefaultIndicesInPool(base_input, pool)
    IN  Concat([k \in 1..Len(parents) |->
                   ChildCandidates(base_input, parents[k], gas, indices)])
        \o Concat([k \in 1..Len(parents) |->
                      ReplacementCandidates(base_input, parents[k], gas, indices)])
        \o NewParentCandidates(base_input, parents, index, gas, nonces, indices)
        \o Concat([k \in 1..Len(parents) |->
                      LadderCandidates(base_input, parents[k], index, gas,
                                       nonces, indices)])
        \o MaxLadderCandidates(base_input, index, gas, nonces, indices)
        \o FallbackCandidates(base_input, parents, index, gas, nonces, indices)

\* BlobTxMutationStrategy.max_blobs_per_tx, min_blob_gas_price and
\* max_blob_gas_price
max_blobs_per_tx == 2
min_blob_gas_price == 1
max_blob_gas_price == 1000

\* What one call of BlobTxMutationStrategy.mutate draws and meets: num_blobs;
\* whether the first and the second generate_blob_versioned_hashes return
\* hashes; which end of its range random.randint gives the blob fee; what it
\* gives for the price of the first intent and of the others, and for the
\* priority fee.
BlobDraws ==
    [num_blobs : 1..max_blobs_per_tx,
     hashes : {"both", "first", "none"},
     blob_fee_high : BOOLEAN,
     price : {1, 100} \X {1, 100},
     priority : {1, 50}]

\* BlobTxMutationStrategy.mutate without its candidate of the highest blob
\* fee.
BlobMutate_WithoutHigh(base_input, pool, index, gas, nonces, draw) ==
    LET indices == BlobIndicesInPool(base_input, pool)
        sender_addr == get_account_by_index(index + 1)
        tx(price, fee, hashes) ==
            BlobFuzzTx(FuzzTx(index + 1, sender_addr,
                              NonceOrZero(nonces, sender_addr), 3,
                              Max(gas.maxFeePerGas, price),
                              Max(gas.maxPriorityFeePerGas, draw.priority), 0),
                       fee, hashes)
    IN  IF sender_addr = NoneAddr \/ draw.hashes = "none" THEN << >>
        ELSE <<Appended(base_input,
                        tx(draw.price[1], min_blob_gas_price, draw.num_blobs),
                        indices),
               Appended(base_input,
                        tx(draw.price[2], Max(1, min_blob_gas_price),
                           draw.num_blobs),
                        indices),
               Appended(base_input,
                        tx(draw.price[2], min_blob_gas_price,
                           draw.num_blobs + 1),
                        indices)>>

\* BlobTxMutationStrategy.mutate(base_input, current_txpool_state,
\* current_fuzzer_account_index)
BlobMutate(base_input, pool, index, gas, nonces, draw) ==
    LET indices == BlobIndicesInPool(base_input, pool)
        sender_addr == get_account_by_index(index + 1)
        blob_gas_price ==
            Max(min_blob_gas_price,
                IF draw.blob_fee_high THEN gas.maxFeePerBlobGas * 2
                ELSE gas.maxFeePerBlobGas \div 2)
        tx(price, fee, hashes) ==
            BlobFuzzTx(FuzzTx(index + 1, sender_addr,
                              NonceOrZero(nonces, sender_addr), 3,
                              Max(gas.maxFeePerGas, price),
                              Max(gas.maxPriorityFeePerGas, draw.priority), 0),
                       fee, hashes)
    IN  IF sender_addr = NoneAddr \/ draw.hashes = "none" THEN << >>
        ELSE <<Appended(base_input,
                        tx(draw.price[1], blob_gas_price, draw.num_blobs),
                        indices),
               Appended(base_input,
                        tx(draw.price[2], Max(1, min_blob_gas_price),
                           draw.num_blobs),
                        indices),
               Appended(base_input,
                        tx(draw.price[2], max_blob_gas_price, draw.num_blobs),
                        indices)>>
             \o (IF draw.hashes = "both"
                 THEN <<Appended(base_input,
                                 tx(draw.price[2], blob_gas_price,
                                    draw.num_blobs + 1),
                                 indices)>>
                 ELSE << >>)

\* The calls of generate_blob_versioned_hashes one call of
\* BlobTxMutationStrategy.mutate makes, each with whether it returned hashes.
BlobHashCalls(index, draw) ==
    LET call(ok) == LogEntry("generate_blob_versioned_hashes", "blob", NoneTx,
                             IF ok THEN "ok" ELSE "none")
    IN  IF get_account_by_index(index + 1) = NoneAddr THEN << >>
        ELSE IF draw.hashes = "none" THEN <<call(FALSE)>>
        ELSE <<call(TRUE), call(draw.hashes = "both")>>

\* CompositeMutationStrategy.mutate of the strategies [default, blob]
CompositeMutate(base_input, pool, index, gas, nonces, draw) ==
    DefaultMutate(base_input, pool, index, gas, nonces)
    \o BlobMutate(base_input, pool, index, gas, nonces, draw)

(***************************************************************************)
(* SpecMut: run_fuzzing calls mutate on the seed it popped.                *)
(***************************************************************************)
\* Two parents of different accounts at different prices, and at the same
\* price.
TxParentOne(price) == FuzzTx(1, 1, 0, 0, price, NoneFee, HeuristicValue(price))
InputLadder == FuzzInput(<<TxParentOne(7), TxParent>>, << >>)
InputLadderTie == FuzzInput(<<TxParentOne(5), TxParent>>, << >>)

\* The blob intent a blob strategy appended for account 1 when its fuzzer
\* nonce was 0, alone in an input.
InputBlob ==
    FuzzInput(<<BlobFuzzTx(FuzzTx(1, 1, 0, 3, 100, 1, 0), 1, 1)>>, << >>)

\* The inputs of the seeds mutated.
BaseInputs ==
    {EmptyInput, InputPC, InputPCR, InputNoKey, InputLadder, InputLadderTie,
     InputBlob}

\* The pool of InputPC, its records as they were sent; the same with the
\* parent's record of type 2; the pool of InputNoKey, its intent of the
\* future nonce queued; the parents of InputLadder; a parent whose value is
\* malformed.
PoolParentChild ==
    [none |-> FALSE,
     pending |-> <<[sender |-> NumAccounts - 1,
                    txs |-> <<PoolTx(0, 0, 5, 1), PoolTx(1, 0, 5, 1)>>]>>,
     queued |-> << >>]
PoolRetyped ==
    [none |-> FALSE,
     pending |-> <<[sender |-> NumAccounts - 1,
                    txs |-> <<PoolTx(0, 2, 5, 1), PoolTx(1, 0, 5, 1)>>]>>,
     queued |-> << >>]
PoolNoKey ==
    [none |-> FALSE,
     pending |-> <<[sender |-> UnmanagedAddress, txs |-> <<PoolTx(0, 0, 5, 1)>>]>>,
     queued |-> <<[sender |-> 1, txs |-> <<PoolTx(FUTURE_NONCE, 0, 5, 2)>>]>>]
PoolLadder ==
    [none |-> FALSE,
     pending |-> <<[sender |-> 1,
                    txs |-> <<PoolTx(0, 0, 7, HeuristicValue(7))>>],
                   [sender |-> NumAccounts - 1, txs |-> <<PoolTx(0, 0, 5, 1)>>]>>,
     queued |-> << >>]
PoolMalformedParent ==
    [none |-> FALSE,
     pending |-> <<[sender |-> NumAccounts - 1,
                    txs |-> <<MalformedValueTx>>]>>,
     queued |-> << >>]

\* A pool whose only pending record is a valid blob record (type 3, one blob
\* hash) of account 1, its gasPrice and maxFeePerGas being 5.
PoolBlobHead ==
    [none |-> FALSE,
     pending |-> <<[sender |-> 1, txs |-> <<BlobTxInRange>>]>>,
     queued |-> << >>]

\* The pools of the seeds mutated.
MutatedPools ==
    {NonePool, PoolEmpty, PoolFuture, PoolNormalParent, PoolParentChild,
     PoolRetyped, PoolNoKey, PoolLadder, PoolMalformedParent, PoolBlobHead}

MutationStrategies == {"default", "blob", "composite"}

\* run_fuzzing has popped a seed and is about to call mutate on it.
MutInit ==
    \E base_input \in BaseInputs, pool \in MutatedPools,
       strategy \in MutationStrategies, nonces \in NoncesBefore,
       index \in {0, NumAccounts - 2, NumAccounts - 1} :
        /\ seeds = <<[Seed(1, base_input, pool,
                           IF pool.none THEN INITIAL_STATE
                           ELSE get_symbolic_pool_state(pool, TxPoolSize), 0)
                      EXCEPT !.generation = 1]>>
        /\ known = {seeds[1].symbolic_state_str}
        /\ nextId = 2
        /\ lastOp = NoOp
        /\ popRun = << >>
        /\ initialized = TRUE
        /\ pc = "mutate"
        /\ driver = "reset"
        /\ future_flag_enabled = FALSE
        /\ mutation_strategy = strategy
        /\ iteration_count = 1
        /\ current_seed = 1
        /\ mutated_inputs = << >>
        /\ child = 0
        /\ handled = 0
        /\ loop_i = 0
        /\ sent_count = 0
        /\ current_gas_prices = NoGasPrices
        /\ fuzzer_nonces = nonces
        /\ current_fuzzer_account_index = index
        /\ new_txpool_state = NonePool
        /\ found_exploits = << >>
        /\ result = NoResult
        /\ execN = 0
        /\ callLog = << >>
        /\ raisedBy = "none"
        /\ NoAbstraction

\* The base sequence after a strategy has appended to and re-priced the
\* sequence it works on, written being that sequence in the end, if that
\* sequence were the base sequence itself.
BaseSequenceAfter_Shared(sequence, written) == written

\* The base sequence after a strategy has appended to and re-priced the
\* sequence it works on, written being that sequence in the end: it works on
\* copy.deepcopy(base_input.tx_sequence_to_execute).
BaseSequenceAfter(sequence, written) == sequence

\* The seeds of the database after mutate has returned out for the input of
\* the seed held.
SeedsAfterMutate(out) ==
    [k \in 1..Len(seeds) |->
        IF seeds[k].id = current_seed /\ out # << >>
        THEN [seeds[k] EXCEPT
                 !.fuzz_input.tx_sequence_to_execute =
                     BaseSequenceAfter(@, out[Len(out)].tx_sequence_to_execute)]
        ELSE seeds[k]]

\* What mutate leaves behind in run_fuzzing, calls being the calls it made
\* of generate_blob_versioned_hashes.
Mutated(out, calls) ==
    /\ pc = "mutate"
    /\ mutated_inputs' = out
    /\ seeds' = SeedsAfterMutate(out)
    /\ callLog' = calls
    /\ child' = 0
    /\ handled' = 0
    /\ pc' = "for"
    /\ UNCHANGED <<absVars, known, nextId, lastOp, popRun, initialized,
                   cfgVars, iteration_count, current_seed, sendVars,
                   current_gas_prices, new_txpool_state, outVars, execN,
                   raisedBy>>

\* mutation_strategy.mutate(current_seed.fuzz_input,
\* current_seed.txpool_state, self.current_fuzzer_account_index) of a
\* DefaultTxPoolMutation
MutateDefault ==
    /\ mutation_strategy = "default"
    /\ \E gas \in MutationGasPrices :
          Mutated(DefaultMutate(CurrentSeed.fuzz_input, CurrentSeed.txpool_state,
                                current_fuzzer_account_index, gas,
                                fuzzer_nonces), << >>)

\* The same of a BlobTxMutationStrategy
MutateBlob ==
    /\ mutation_strategy = "blob"
    /\ \E gas \in MutationGasPrices, draw \in BlobDraws :
          Mutated(BlobMutate(CurrentSeed.fuzz_input, CurrentSeed.txpool_state,
                             current_fuzzer_account_index, gas, fuzzer_nonces,
                             draw),
                  BlobHashCalls(current_fuzzer_account_index, draw))

\* The same of a CompositeMutationStrategy of the two
MutateComposite ==
    /\ mutation_strategy = "composite"
    /\ \E gas \in MutationGasPrices, draw \in BlobDraws :
          Mutated(CompositeMutate(CurrentSeed.fuzz_input,
                                  CurrentSeed.txpool_state,
                                  current_fuzzer_account_index, gas,
                                  fuzzer_nonces, draw),
                  BlobHashCalls(current_fuzzer_account_index, draw))

MutNext == MutateDefault \/ MutateBlob \/ MutateComposite

SpecMut == MutInit /\ [][MutNext]_vars

(***************************************************************************)
(* Properties of the mutation strategies (SpecMut).                        *)
(***************************************************************************)
\* mutate has returned to run_fuzzing.
MutateReturned == pc = "for"

\* The records of a pool, pending or queued, each with its sender.
RecordsOf(entries) ==
    UNION {{<<entries[k].sender, entries[k].txs[j]>> :
               j \in 1..Len(entries[k].txs)} : k \in 1..Len(entries)}
PoolRecords(pool) ==
    IF pool.none THEN {} ELSE RecordsOf(pool.pending) \cup RecordsOf(pool.queued)

\* The positions of the intents of an input of which a pool holds a record
\* with the same sender, nonce, value and type.
StillInPool(base_input, pool) ==
    {i \in 0..(Len(base_input.tx_sequence_to_execute) - 1) :
        \E r \in PoolRecords(pool) :
            LET tx == base_input.tx_sequence_to_execute[i + 1]
            IN  /\ r[1] = tx.sender_address
                /\ r[2].nonce = tx.nonce
                /\ r[2].value # Malformed /\ HexOrZero(r[2].value) = tx.value
                /\ r[2].type # Malformed /\ HexOrZero(r[2].type) = tx.tx_type}

\* C27: Every child a strategy returns asks for exactly those intents of the
\* base input to be sent again of which the seed's pool holds, pending or
\* queued, a record with the same sender, nonce, value and type; for none
\* when the seed has no pool.
C27_ResendIndices ==
    MutateReturned =>
        \A k \in 1..Len(mutated_inputs) :
            Range(mutated_inputs[k].base_input_indices_to_resend)
                = StillInPool(CurrentSeed.fuzz_input, CurrentSeed.txpool_state)

\* The part of C27 about the blob strategy.
C27_OfBlobStrategy == mutation_strategy = "blob" => C27_ResendIndices

\* The part of C27 about a seed without a pool.
C27_WithoutPool ==
    MutateReturned /\ CurrentSeed.txpool_state.none =>
        \A k \in 1..Len(mutated_inputs) : Range(mutated_inputs[k].base_input_indices_to_resend) = {}

\* The input is the base sequence with one more intent, and that intent.
Extends(input, base_input) ==
    /\ Len(input.tx_sequence_to_execute)
        = Len(base_input.tx_sequence_to_execute) + 1
    /\ SubSeq(input.tx_sequence_to_execute, 1,
              Len(base_input.tx_sequence_to_execute))
        = base_input.tx_sequence_to_execute
LastTx(input) ==
    input.tx_sequence_to_execute[Len(input.tx_sequence_to_execute)]

\* The candidates of the default strategy for a pending sender e: the
\* override child, the low-value child and the replacement.
HighPriced(tx) ==
    /\ tx.tx_type = 2
    /\ tx.price >= STATE_PARENT_REPLACEMENT_PRICE_THRESHOLD
OverrideValue(tx) == OVERRIDE_FUNDS - DEFAULT_GAS_LIMIT * tx.price - 100
IsOverrideChild(input, base_input, e) ==
    /\ Extends(input, base_input)
    /\ HighPriced(LastTx(input))
    /\ LastTx(input).sender_address = e.sender
    /\ LastTx(input).nonce = Len(e.txs)
    /\ LastTx(input).value = OverrideValue(LastTx(input))
IsLowValueChild(input, base_input, e) ==
    /\ Extends(input, base_input)
    /\ HighPriced(LastTx(input))
    /\ LastTx(input).sender_address = e.sender
    /\ LastTx(input).nonce = Len(e.txs)
    /\ LastTx(input).value = STATE_CHILD_VALUE_THRESHOLD
IsReplacement(input, base_input, e) ==
    /\ Extends(input, base_input)
    /\ HighPriced(LastTx(input))
    /\ LastTx(input).sender_address = e.sender
    /\ LastTx(input).nonce = 0
    /\ LastTx(input).value = OverrideValue(LastTx(input))

\* The candidates that bring a parent of the legacy type: the new parent
\* after the base sequence, and the fallback parent alone.
IsNewParent(input, base_input) ==
    /\ Extends(input, base_input)
    /\ LastTx(input).tx_type = 0
IsFallbackParent(input) ==
    /\ Len(input.tx_sequence_to_execute) = 1
    /\ LastTx(input).tx_type = 0

\* The pending senders of the seed's pool whose head is not normal, each an
\* account of the fuzzer; the base input has a parent that is not normal.
NonNormalHeads(pool) ==
    IF pool.none THEN << >>
    ELSE SelectSeq(NonEmptySenders(pool.pending),
                   LAMBDA e : IsNonNormalSender(e) /\ e.sender \in Accounts)
HasNonNormalHead(pool) ==
    /\ ~pool.none
    /\ \E k \in 1..Len(pool.pending) :
          pool.pending[k].txs # << >> /\ IsNonNormalSender(pool.pending[k])
HasNonNormalParent(base_input) ==
    \E i \in 1..Len(base_input.tx_sequence_to_execute) :
        /\ base_input.tx_sequence_to_execute[i].nonce = 0
        /\ base_input.tx_sequence_to_execute[i].price
            # STATE_NORMAL_TX_PRICE_INDICATOR

\* How many of the children returned are such.
Emitted(Is(_)) ==
    Cardinality({k \in 1..Len(mutated_inputs) : Is(mutated_inputs[k])})

C28_WitnessFallback ==
    /\ MutateReturned /\ mutation_strategy = "default"
    /\ CurrentSeed.txpool_state = PoolEmpty
    /\ CurrentSeed.fuzz_input = EmptyInput
    /\ Emitted(IsFallbackParent) > 0

\* The account after the next free one exists; the calls of
\* generate_blob_versioned_hashes were made and each returned hashes.
FreshAccountExists ==
    get_account_by_index(current_fuzzer_account_index + 1) # NoneAddr
HashesComputed ==
    /\ callLog # << >>
    /\ \A k \in 1..Len(callLog) : callLog[k].res = "ok"

\* The candidate is the base sequence followed by one intent of type 3.
IsBlobCandidate(input, base_input) ==
    /\ Extends(input, base_input)
    /\ LastTx(input).tx_type = 3

\* The blob strategy returned n candidates, each the base sequence followed
\* by one intent of type 3.
BlobCandidates(n) ==
    /\ Len(mutated_inputs) = n
    /\ \A k \in 1..n : IsBlobCandidate(mutated_inputs[k], CurrentSeed.fuzz_input)

\* C29 as stated: three candidates.
C29_BlobCandidates_Stated ==
    MutateReturned /\ mutation_strategy = "blob" =>
        /\ FreshAccountExists /\ HashesComputed => BlobCandidates(3)
        /\ ~FreshAccountExists => mutated_inputs = << >>

\* C29: Whenever the account at the next free index + 1 exists and the blob
\* hashes are computed, one call of the blob strategy returns exactly four
\* candidates, each the base sequence followed by one intent of type 3: one
\* with a drawn blob fee, one with the lowest, one with the highest, all
\* three with as many hashes as blobs, and one with one hash more; when the
\* account does not exist it returns no candidate.
C29_BlobCandidates ==
    MutateReturned /\ mutation_strategy = "blob" =>
        /\ FreshAccountExists /\ HashesComputed =>
              /\ BlobCandidates(4)
              /\ LastTx(mutated_inputs[2]).max_fee_per_blob_gas
                    = Max(1, min_blob_gas_price)
              /\ LastTx(mutated_inputs[3]).max_fee_per_blob_gas
                    = max_blob_gas_price
              /\ \A k \in 1..3 :
                    LastTx(mutated_inputs[k]).blob_versioned_hashes
                        = LastTx(mutated_inputs[1]).blob_versioned_hashes
              /\ LastTx(mutated_inputs[4]).blob_versioned_hashes
                    = LastTx(mutated_inputs[1]).blob_versioned_hashes + 1
              /\ LastTx(mutated_inputs[1]).blob_versioned_hashes
                    \in 1..max_blobs_per_tx
        /\ ~FreshAccountExists => mutated_inputs = << >>

\* The blob strategy has mutated a seed with a parent and a child in its
\* input, the account existing and the hashes computed.
C29_Witness ==
    /\ MutateReturned /\ mutation_strategy = "blob"
    /\ FreshAccountExists /\ HashesComputed
    /\ CurrentSeed.fuzz_input = InputPC
    /\ Len(mutated_inputs) = 4

(***************************************************************************)
(* SpecSym: the symbolic form of an input (fuzz_engine.py).                *)
(***************************************************************************)
\* What one intent adds to output when sender_nonce_tracker is not looked at.
InputSymbolOf_Untracked(tx, sender_nonce_tracker) ==
    IF tx.nonce = 0
    THEN IF tx.price < STATE_PARENT_REPLACEMENT_PRICE_THRESHOLD
         THEN <<"P">> ELSE <<"R">>
    ELSE IF tx.value <= STATE_CHILD_VALUE_THRESHOLD
         THEN <<"C">> ELSE <<"O">>

\* What one intent adds to output in _parse_input_to_symbol,
\* sender_nonce_tracker being a function of the senders seen.
InputSymbolOf(tx, sender_nonce_tracker) ==
    IF tx.nonce = 0
    THEN IF tx.price < STATE_PARENT_REPLACEMENT_PRICE_THRESHOLD
         THEN <<"P">> ELSE <<"R">>
    ELSE IF /\ tx.sender_address \in DOMAIN sender_nonce_tracker
            /\ tx.nonce = sender_nonce_tracker[tx.sender_address] + 1
         THEN IF tx.value <= STATE_CHILD_VALUE_THRESHOLD
              THEN <<"C">> ELSE <<"O">>
         ELSE << >>

\* sender_nonce_tracker[tx.sender_address] = tx.nonce
Tracked(sender_nonce_tracker, tx) ==
    [a \in DOMAIN sender_nonce_tracker \cup {tx.sender_address} |->
        IF a = tx.sender_address THEN tx.nonce ELSE sender_nonce_tracker[a]]

\* The loop of _parse_input_to_symbol from the i-th intent on.
RECURSIVE ParseFrom(_, _, _)
ParseFrom(sequence, i, sender_nonce_tracker) ==
    IF i > Len(sequence) THEN << >>
    ELSE LET symbol == InputSymbolOf(sequence[i], sender_nonce_tracker)
         IN  symbol \o ParseFrom(sequence, i + 1,
                                 IF symbol = << >> THEN sender_nonce_tracker
                                 ELSE Tracked(sender_nonce_tracker, sequence[i]))

\* FuzzEngine._parse_input_to_symbol(fuzz_input)
parse_input_to_symbol(fuzz_input) ==
    ParseFrom(fuzz_input.tx_sequence_to_execute, 1, << >>)

\* The longest input parsed.
MaxIntents == 3

\* The intents of the inputs parsed: of two senders, a parent below the
\* replacement threshold and one at it, intents of the nonces 1 and 2 whose
\* value is the child threshold or above it, and one of the future nonce.
ParsedIntents ==
    {FuzzTx(a, a, 0, 0, price, NoneFee, 1) :
        a \in 0..1,
        price \in {5, STATE_PARENT_REPLACEMENT_PRICE_THRESHOLD}}
    \cup {FuzzTx(a, a, nonce, 0, 5, NoneFee, value) :
            a \in 0..1, nonce \in 1..2,
            value \in {STATE_CHILD_VALUE_THRESHOLD,
                       STATE_CHILD_VALUE_THRESHOLD + 1}}
    \cup {FuzzTx(a, a, FUTURE_NONCE, 2, 5, 1, 2) : a \in 0..1}

ParsedInputs ==
    UNION {{FuzzInput(sequence, << >>) :
               sequence \in [1..n -> ParsedIntents]} : n \in 0..MaxIntents}

\* An input is handed to _parse_input_to_symbol.
SymInit ==
    /\ DbConstructed
    /\ EngineConstructed("idle", "reset", FALSE)
    /\ txpool_content = NonePool
    /\ symbolic_state = NoneStr
    /\ pool_energy = NoEnergy
    /\ parsed_input \in ParsedInputs
    /\ input_symbol = NoneStr

\* _parse_input_to_symbol(fuzz_input) returns.
ParseInput ==
    /\ input_symbol = NoneStr
    /\ input_symbol' = parse_input_to_symbol(parsed_input)
    /\ UNCHANGED <<dbVars, engineVars, txpool_content, symbolic_state,
                   pool_energy, parsed_input>>

SymNext == ParseInput

SpecSym == SymInit /\ [][SymNext]_vars

\* The input of the first i intents of the input parsed, and what its i-th
\* intent adds to the symbolic form.
FirstIntents(i) ==
    FuzzInput(SubSeq(parsed_input.tx_sequence_to_execute, 1, i), << >>)
SymbolAdded(i) ==
    SubSeq(parse_input_to_symbol(FirstIntents(i)),
           Len(parse_input_to_symbol(FirstIntents(i - 1))) + 1,
           Len(parse_input_to_symbol(FirstIntents(i))))

\* The intent before the i-th that has a symbol and the i-th's sender, the
\* last such one: 0 if there is none.
LastSymbolized(i) ==
    LET sequence == parsed_input.tx_sequence_to_execute
        before == {j \in 1..(i - 1) :
                      /\ sequence[j].sender_address = sequence[i].sender_address
                      /\ SymbolAdded(j) # << >>}
    IN  IF before = {} THEN 0
        ELSE CHOOSE j \in before : \A k \in before : k <= j

\* The i-th intent carries the nonce after the one of its sender's last
\* intent with a symbol.
Contiguous(i) ==
    /\ LastSymbolized(i) # 0
    /\ parsed_input.tx_sequence_to_execute[i].nonce
        = parsed_input.tx_sequence_to_execute[LastSymbolized(i)].nonce + 1

\* C30: The symbolic form of an input is a string over P, R, C, O that grows
\* by at most one symbol with each intent: an intent of nonce 0 adds P if its
\* price is below the replacement threshold and R otherwise; C or O is added
\* only for an intent that carries the nonce after the one of its sender's
\* last intent with a symbol; an intent of the future nonce, or of a nonce
\* that leaves a gap, adds nothing.
C30_InputSymbols ==
    input_symbol # NoneStr =>
        LET sequence == parsed_input.tx_sequence_to_execute
        IN  /\ input_symbol = parse_input_to_symbol(FirstIntents(Len(sequence)))
            /\ \A k \in 1..Len(input_symbol) :
                  input_symbol[k] \in {"P", "R", "C", "O"}
            /\ \A i \in 1..Len(sequence) :
                  /\ SubSeq(parse_input_to_symbol(FirstIntents(i)), 1,
                            Len(parse_input_to_symbol(FirstIntents(i - 1))))
                        = parse_input_to_symbol(FirstIntents(i - 1))
                  /\ Len(SymbolAdded(i)) <= 1
                  /\ sequence[i].nonce = 0 =>
                        SymbolAdded(i) =
                            IF sequence[i].price
                                < STATE_PARENT_REPLACEMENT_PRICE_THRESHOLD
                            THEN <<"P">> ELSE <<"R">>
                  /\ SymbolAdded(i) \in {<<"C">>, <<"O">>} =>
                        sequence[i].nonce # 0 /\ Contiguous(i)
                  /\ sequence[i].nonce = FUTURE_NONCE => SymbolAdded(i) = << >>
                  /\ sequence[i].nonce # 0 /\ ~Contiguous(i) =>
                        SymbolAdded(i) = << >>

\* An input of a parent, its child and an intent of another sender whose
\* nonce leaves a gap has been parsed.
C30_Witness ==
    /\ input_symbol = <<"P", "C">>
    /\ Len(parsed_input.tx_sequence_to_execute) = 3
    /\ parsed_input.tx_sequence_to_execute[1].nonce = 0
    /\ parsed_input.tx_sequence_to_execute[2].nonce = 1
    /\ parsed_input.tx_sequence_to_execute[3].nonce = 2
    /\ parsed_input.tx_sequence_to_execute[3].sender_address
        # parsed_input.tx_sequence_to_execute[1].sender_address

\* The intents of the children returned.
ReturnedIntents ==
    UNION {Range(mutated_inputs[k].tx_sequence_to_execute) :
              k \in 1..Len(mutated_inputs)}

\* C31: Every intent whose value is gas_limit * (12000 - price), the value of
\* the new parents and of the parents of the two ladders, has a value of at
\* least 0, whatever the price: at a price of 12000 or more it is 0.
C31_ValueNotNegative ==
    MutateReturned /\ mutation_strategy = "default" =>
        \A tx \in ReturnedIntents : tx.value >= 0

\* The part of C31 below the price of 12000.
C31_BelowFloor ==
    MutateReturned /\ mutation_strategy = "default" =>
        \A tx \in ReturnedIntents : tx.price < HIGH_PRICE_FLOOR => tx.value >= 0

\* The invariant of an intent: it has hashes if and only if its type is 3,
\* and then its blob fee is set.
TxIntentInvariant(tx) ==
    /\ tx.blob_versioned_hashes >= 1 <=> tx.tx_type = 3
    /\ tx.tx_type = 3 => tx.max_fee_per_blob_gas # NoneFee

\* C32: Every intent of every child a strategy returns, the re-priced ones
\* included, has a non-empty list of blob hashes if and only if its type is
\* 3, and a blob fee if its type is 3.
C32_TxIntentInvariant ==
    MutateReturned => \A tx \in ReturnedIntents : TxIntentInvariant(tx)

\* The seeds mutated hold intents that satisfy the invariant.
C32_OfBaseInputs ==
    \A tx \in Range(CurrentSeed.fuzz_input.tx_sequence_to_execute) :
        TxIntentInvariant(tx)

\* The part of C32 about the blob strategy, and about the intents a strategy
\* appends.
C32_OfBlobStrategy == mutation_strategy = "blob" => C32_TxIntentInvariant
C32_OfAppended ==
    MutateReturned =>
        \A k \in 1..Len(mutated_inputs) : TxIntentInvariant(LastTx(mutated_inputs[k]))

\* The seed of the same identity after the step.
SeedAfter(sd) ==
    CHOOSE after \in Range(seeds') : after.id = sd.id

C33_StoredSeedsFrozen ==
    [][\A sd \in Range(seeds) :
          \E after \in Range(seeds') :
              /\ after.id = sd.id
              /\ [after EXCEPT !.generation = sd.generation] = sd
              /\ after.generation # sd.generation => lastOp'.op = "pop"]_vars

(***************************************************************************)
(* The protocol order of an execution.                                     *)
(***************************************************************************)
\* The driver calls of callLog follow the order reset_state,
\* clear_txpool_custom, baseline sends, future sends, parent re-sends,
\* target sends; reset_state is the first call and is made once; and no
\* intent is sent before the nonce counters are reset and the fees fetched.
CallsInOrder ==
    /\ callLog # << >> => callLog[1].call = "reset"
    /\ \A k \in 2..Len(callLog) : callLog[k].call # "reset"
    /\ \A j, k \in 1..Len(callLog) :
          j < k => PhaseRank(callLog[j].kind) <= PhaseRank(callLog[k].kind)
    /\ pc \in {"reset", "clear", "fees"} =>
          /\ SendsOfKind("normal") = << >> /\ SendsOfKind("future") = << >>
          /\ SendsOfKind("resend") = << >> /\ SendsOfKind("input") = << >>
          /\ current_gas_prices = NoGasPrices

\* The step that resets the nonce counters and fetches the fees is taken once,
\* behind the reset, and no other step of the execution fetches fees or
\* resets the counters; every send is made behind it, by one of the four
\* loops.
FeesFetchedOnce ==
    /\ pc' = "fees" => pc \in {"reset", "clear"}
    /\ pc = "fees" =>
          /\ pc' = "normal"
          /\ fuzzer_nonces' = reset_all_fuzzer_nonces
          /\ current_gas_prices' # NoGasPrices
    /\ (pc \in ExecutionPcs \ {"fees", "capture"}) =>
          current_gas_prices' = current_gas_prices
    /\ SendStep =>
          /\ pc \in {"normal", "future", "resend", "input"}
          /\ current_gas_prices # NoGasPrices

\* The step left _execute_input_sequence without an exception.
ExecutionReturns == pc \in ExecutionPcs /\ pc' \notin ExecutionPcs \cup {"raised"}

\* The step is the return None of the warm path whose pool could not be
\* cleared: nothing was sent.
CannotRecreate ==
    /\ pc = "clear"
    /\ callLog'[Len(callLog')].call = "clear"
    /\ callLog'[Len(callLog')].res = "none"
    /\ \A k \in 1..Len(callLog') : callLog'[k].call # "send"
    /\ new_txpool_state' = NonePool

\* A clear_txpool_custom that failed is the last call of its execution.
FailedClearIsLast ==
    \A k \in 1..Len(callLog) :
        (callLog[k].call = "clear" /\ callLog[k].res = "none") =>
            k = Len(callLog) /\ pc \notin ExecutionPcs

\* The pool is read by the last step of the execution, behind the loop over
\* the target input.
ReadIsLast ==
    /\ pc = "capture" => pc' = "analyze" /\ callLog' = callLog
    /\ pc' = "capture" => pc = "input"

C34_WitnessDiscarded ==
    /\ pc = "analyze"
    /\ callLog[Len(callLog)].call = "clear"
    /\ callLog[Len(callLog)].res = "none"

(***************************************************************************)
(* The max-ladder candidate.                                               *)
(***************************************************************************)
\* The default strategy has returned for a base input with an intent of nonce
\* 0: its last candidate is the max-ladder candidate.
MaxLadderEmitted ==
    /\ MutateReturned
    /\ mutation_strategy = "default"
    /\ BaseParentPrices(CurrentSeed.fuzz_input) # << >>
    /\ mutated_inputs # << >>

\* The intents of the max-ladder candidate, the new parent being the last.
MaxLadderSequence == mutated_inputs[Len(mutated_inputs)].tx_sequence_to_execute

\* The prices the intents of nonce 0 of the base input have in the max-ladder
\* candidate.
MaxLadderRepriced ==
    LET base == CurrentSeed.fuzz_input.tx_sequence_to_execute
    IN  {MaxLadderSequence[k].price : k \in {j \in 1..Len(base) : base[j].nonce = 0}}

\* C35: in the max-ladder candidate the price of the new parent is greater
\* than the price of every re-priced intent of nonce 0, and one step above
\* the highest of them.
C35_MaxLadderOnTop ==
    MaxLadderEmitted =>
        LET seq == MaxLadderSequence
            new_parent == seq[Len(seq)]
        IN  /\ Len(seq) = Len(CurrentSeed.fuzz_input.tx_sequence_to_execute) + 1
            /\ price_ladder_step_length > 0
            /\ \A p \in MaxLadderRepriced : p < new_parent.price
            /\ new_parent.price - price_ladder_step_length \in MaxLadderRepriced

\* The max-ladder candidate of a base input whose two intents of nonce 0 have
\* the same price, both re-priced.
C35_Witness ==
    /\ MaxLadderEmitted
    /\ LET prices == BaseParentPrices(CurrentSeed.fuzz_input)
           base == CurrentSeed.fuzz_input.tx_sequence_to_execute
       IN  /\ Len(prices) = 2 /\ prices[1] = prices[2]
           /\ \A k \in 1..Len(base) : MaxLadderSequence[k].price # base[k].price

(***************************************************************************)
(* SpecDefault: run_fuzzing of an engine whose mutation strategy is the    *)
(* DefaultTxPoolMutation.                                                  *)
(***************************************************************************)
DefaultInit ==
    /\ DbConstructed
    /\ \E d \in Drivers, f \in BOOLEAN :
          /\ pc = "start"
          /\ driver = d
          /\ future_flag_enabled = f
          /\ mutation_strategy = "default"
          /\ iteration_count = 0
          /\ current_seed = 0
          /\ mutated_inputs = << >>
          /\ child = 0
          /\ handled = 0
          /\ loop_i = 0
          /\ sent_count = 0
          /\ current_gas_prices = NoGasPrices
          /\ fuzzer_nonces = reset_all_fuzzer_nonces
          /\ current_fuzzer_account_index = 0
          /\ new_txpool_state = NonePool
          /\ found_exploits = << >>
          /\ result = NoResult
          /\ execN = 0
          /\ callLog = << >>
          /\ raisedBy = "none"
    /\ NoAbstraction

DefaultNext ==
    \/ RunStart
    \/ LoopExit
    \/ LoopIterate
    \/ MutateDefault
    \/ NextChild
    \/ ResetState
    \/ ClearTxpool
    \/ FetchGasPrices
    \/ SendNormal
    \/ SendFuture
    \/ SendResend
    \/ SendInput
    \/ Capture
    \/ Analyze

SpecDefault == DefaultInit /\ [][DefaultNext]_vars

\* The addresses that send an intent of the input of a seed or a record of
\* its raw pool.
SendersOfSeed(sd) ==
    {sd.fuzz_input.tx_sequence_to_execute[k].sender_address :
        k \in 1..Len(sd.fuzz_input.tx_sequence_to_execute)}
    \cup {rec[1] : rec \in PoolRecords(sd.txpool_state)}

\* C36: when mutate is called, the account the strategy takes for a new
\* parent (index current_fuzzer_account_index + 1) sends no intent of the
\* input of the seed being mutated and no record of its raw pool.
C36_FreshAccount ==
    pc = "mutate" =>
        get_safe_account_address(current_fuzzer_account_index + 1)
            \notin SendersOfSeed(CurrentSeed)

(***************************************************************************)
(* FairSpecDB: the calls of a SeedDatabase when get_next_seed is called    *)
(* again and again, as the while loop of run_fuzzing does at every          *)
(* iteration while its budget lasts.                                       *)
(***************************************************************************)
FairSpecDB == SpecDB /\ WF_vars(DbPop)

\* The stored seed of an identity has been returned by get_next_seed.
SeedReturned(id) ==
    \E k \in 1..Len(seeds) : seeds[k].id = id /\ seeds[k].generation > 0

\* The least energy of the stored seeds.
LeastEnergy ==
    CHOOSE e \in 0..MaxEnergy :
        /\ \E k \in 1..Len(seeds) : seeds[k].energy = e
        /\ \A k \in 1..Len(seeds) : seeds[k].energy >= e

\* No seed will be admitted any more, and the get_next_seed calls left are
\* enough to return every seed not yet returned once.
BudgetForAll ==
    /\ nextId > MaxAdmits
    /\ \A k \in 1..Len(seeds) : seeds[k].generation < MaxPops
    /\ Len(popRun) + Cardinality({k \in 1..Len(seeds) : seeds[k].generation = 0})
          <= MaxPops

C37_EngineStarves ==
    \A k \in 1..Len(seeds) : seeds[k].energy > 0 => seeds[k].generation = 0

(***************************************************************************)
(* The heads of the default strategy and of the abstraction.               *)
(***************************************************************************)
\* The senders of a list of pending senders.
SendersIn(entries) == {entries[k].sender : k \in 1..Len(entries)}

\* The pending senders get_symbolic_pool_state takes for the heads of the
\* chains it symbolizes with P, R, C and O.
AbstractionHeads(pool) ==
    IF pool.none THEN {}
    ELSE SendersIn(SelectSeq(NonEmptySenders(pool.pending), IsNonNormalSender))

\* C38: the pending senders of the seed's pool that the default strategy
\* takes for parents in the pool (and gives an override child, a low-value
\* child and a replacement) are the senders the abstraction takes for the
\* heads of its P and R chains.
C38_SameHeads ==
    SendersIn(ParentsInPool(CurrentSeed.txpool_state))
        = AbstractionHeads(CurrentSeed.txpool_state)

\* The default strategy has returned an override child, a low-value child and
\* a replacement for the sender of a blob record, which the abstraction
\* symbolizes with B.
C38_BlobHeadMutated ==
    /\ MutateReturned /\ mutation_strategy = "default"
    /\ CurrentSeed.txpool_state = PoolBlobHead
    /\ AbstractionHeads(PoolBlobHead) = {}
    /\ get_symbolic_pool_state(PoolBlobHead, TxPoolSize)[1] = "B"
    /\ \A k \in 1..3 :
          LastTx(mutated_inputs[k]).sender_address = PoolBlobHead.pending[1].sender

(***************************************************************************)
(* The nonce counters after an execution.                                  *)
(***************************************************************************)
\* The number of the target intents of a sender, the future intents apart,
\* whose send succeeded.
OkTargetSendsFrom(sender) ==
    Cardinality({k \in 1..Len(callLog) :
        /\ callLog[k].call = "send" /\ callLog[k].kind = "input"
        /\ callLog[k].res = "ok" /\ callLog[k].tx.sender_address = sender
        /\ callLog[k].tx.nonce # FUTURE_NONCE})

\* The execution has returned the pool it read.
ExecutionDone == pc = "analyze" /\ ~new_txpool_state.none

\* Every counter is the number of the baseline and the target sends of its
\* address that succeeded.
CountersMatchSends ==
    \A a \in Accounts :
        fuzzer_nonces[a] = DEFAULT_INITIAL_NONCE + OkSendsFrom("normal", a)
                           + OkTargetSendsFrom(a)

\* C39: after an execution, cold or warm, the nonce counter of every address
\* is the number of its baseline intents sent with success plus the number of
\* its target intents of a nonce other than 10000 sent with success.
C39_NonceCounters == ExecutionDone => CountersMatchSends

\* The same of the executions on the warm path only.
C39_WarmCounters == (ExecutionDone /\ ~IsColdPath) => CountersMatchSends

\* A warm-path execution has sent a target intent with success.
C39_WarmWitness ==
    /\ ExecutionDone /\ ~IsColdPath
    /\ \E a \in Accounts : OkTargetSendsFrom(a) > 0

=============================================================================
